---- MODULE Spec2Model ----
(***************************************************************************)
(* A model of bpns, the Bitcoin Push Notification Service: the notification*)
(* store (src/core/db/mod.rs), the Core API facade (src/core/api.rs), the  *)
(* block and mempool processors (src/core/bitcoin/processor.rs) and the    *)
(* retention cleaners (src/core/db/cleaner.rs).                            *)
(*                                                                         *)
(* Strings that matter character by character (tokens) are kept            *)
(* run-length encoded: a string is a sequence of runs <<c, n>>, the        *)
(* character c repeated n >= 1 times, adjacent runs having different       *)
(* characters, so that equal strings have equal encodings.                 *)
(*                                                                         *)
(* The first 32 hex characters of SHA-512 are taken to be collision free:  *)
(* a notification key is the text that is hashed.                          *)
(***************************************************************************)
EXTENDS Integers, Sequences, FiniteSets, TLC

VARIABLES
    last_processed_block, \* NETWORK_CF, key "last_processed_block": NONE or a height
    token_cf,             \* TOKEN_CF: the set of keys (every value is "")
    address_cf,           \* ADDRESS_CF: address -> Address.tokens (a Vec<String>)
    notification_cf,      \* NOTIFICATION_CF: key -> Notification
    mempool_cf,           \* MEMPOOL_CF: txid -> Mempool.timestamp
    now,                  \* util::timestamp(), unix seconds since the model's start
    tip,                  \* the node's chain height (what get_block_count returns)
    txState,              \* per txid: NotSent, InMempool, or the height of its block
    node,                 \* what the node's info calls report (bitcoin/mod.rs)
    bitcoin,              \* the "bitcoin" thread: the preflight loop, then Processor::run
    requests,             \* the front ends' requests in progress
    lastTip,              \* the height most recently returned by get_block_count
    bp,                   \* block_processor thread: pc and locals
    mp,                   \* mempool_processor thread: pc and locals
    sub,                  \* a front end delivering notifications (matrix bot loop)
    ncl,                  \* notification_cleaner thread: pc and the snapshot it walks
    mcl,                  \* mempool_txs_cache_cleaner thread: pc and the snapshot it walks
    presented,            \* history: how many times each event was delivered
    written,              \* history: every (key, confirmed) create_notification wrote
    lastOp                \* history: the last store / Core API call and its result

store == <<last_processed_block, token_cf, address_cf, notification_cf, mempool_cf>>
\* The surroundings of the processor and cleaner threads: the clock, the node,
\* the thread that starts the processors, and the requests of the front ends.
env == <<now, tip, txState, node, bitcoin, requests>>
procs == <<lastTip, bp, mp, sub, ncl, mcl>>
hist == <<presented, written, lastOp>>
vars == <<store, env, procs, hist>>

NONE == -1

----------------------------------------------------------------------------
(* Strings, run-length encoded *)

Run(c, n) == <<c, n>>

\* Characters that take two bytes in UTF-8; every other character of the
\* model's alphabet is ASCII.
TwoByteChars == {"é"}

ByteWidth(c) == IF c \in TwoByteChars THEN 2 ELSE 1

RECURSIVE CharLen(_)
CharLen(s) == IF s = <<>> THEN 0 ELSE Head(s)[2] + CharLen(Tail(s))

\* str::len(): the length in bytes
RECURSIVE ByteLen(_)
ByteLen(s) == IF s = <<>> THEN 0 ELSE Head(s)[2] * ByteWidth(Head(s)[1]) + ByteLen(Tail(s))

CharsOf(s) == {s[i][1] : i \in DOMAIN s}

----------------------------------------------------------------------------
(* util *)

CHARS == {"A", "B", "C", "D", "E", "F", "a", "b", "c", "d", "e", "f",
          "0", "1", "2", "3", "4", "5", "6", "7", "8", "9"}

MIN_TOKEN_LEN == 50

is_token_short(token) ==
    IF ByteLen(token) <= MIN_TOKEN_LEN THEN FALSE
    ELSE \A c \in CharsOf(token) : c \in CHARS

is_token(token) ==
    IF ByteLen(token) < MIN_TOKEN_LEN THEN FALSE
    ELSE \A c \in CharsOf(token) : c \in CHARS

----------------------------------------------------------------------------
(* KV helpers: a partition is a function from its keys *)

Put(cf, key, value) == [k \in DOMAIN cf \cup {key} |-> IF k = key THEN value ELSE cf[k]]

Delete(cf, key) == [k \in DOMAIN cf \ {key} |-> cf[k]]

Contains(seq, x) == \E i \in DOMAIN seq : seq[i] = x

\* Vec::retain(|x| x != token)
Retain(seq, token) == SelectSeq(seq, LAMBDA x : x # token)

----------------------------------------------------------------------------
(* CoreStore: each operation as a function of the partitions it touches *)

token_exist(tk, token) == token \in tk

\* create_token without the test for an existing token.
create_token_no_exist_check(tk, token) ==
    IF ~is_token(token) THEN [result |-> "InvalidValue", token_cf |-> tk]
    ELSE [result |-> "Ok", token_cf |-> tk \cup {token}]

\* The result of create_token and the token partition it leaves.
create_token(tk, token) ==
    IF ~is_token(token) THEN [result |-> "InvalidValue", token_cf |-> tk]
    ELSE IF token_exist(tk, token) THEN [result |-> "AlreadyExist", token_cf |-> tk]
    ELSE [result |-> "Ok", token_cf |-> tk \cup {token}]

\* create_address without the contains test.
create_address_always_push(ad, token, address) ==
    IF address \in DOMAIN ad
    THEN Put(ad, address, Append(ad[address], token))
    ELSE Put(ad, address, <<token>>)

create_address(ad, token, address) ==
    IF address \in DOMAIN ad
    THEN IF ~Contains(ad[address], token)
         THEN Put(ad, address, Append(ad[address], token))
         ELSE ad
    ELSE Put(ad, address, <<token>>)

delete_address_keep_empty(ad, token, address) ==
    IF address \in DOMAIN ad /\ Contains(ad[address], token)
    THEN Put(ad, address, Retain(ad[address], token))
    ELSE ad

delete_address(ad, token, address) ==
    IF address \in DOMAIN ad /\ Contains(ad[address], token)
    THEN LET tokens == Retain(ad[address], token)
         IN  IF tokens = <<>> THEN Delete(ad, address) ELSE Put(ad, address, tokens)
    ELSE ad

\* The iteration is over a snapshot of the partition; each record is rewritten
\* or deleted on its own, so the order of the HashMap does not matter.
delete_addresses_by_token(ad, token) ==
    LET hit == {a \in DOMAIN ad : Contains(ad[a], token)}
        gone == {a \in hit : Retain(ad[a], token) = <<>>}
    IN  [a \in DOMAIN ad \ gone |-> IF a \in hit THEN Retain(ad[a], token) ELSE ad[a]]

\* The text format!("{}:{}:{}:{}", token, txid, txtype, amount) whose SHA-512
\* prefix is the key.
NotificationKeyWithConfirmed(token, txid, txtype, amount, confirmed) ==
    <<token, txid, txtype, amount, confirmed>>

NotificationKeyTxOnly(token, txid, txtype, amount) == <<token, txid>>

NotificationKey(token, txid, txtype, amount) == <<token, txid, txtype, amount>>

create_notification_keyed_by_stage(nf, token, address, txid, txtype, amount, confirmed, ts) ==
    LET key == NotificationKeyWithConfirmed(token, txid, txtype, amount, confirmed)
    IN  Put(nf, key, [id |-> key, token |-> token, address |-> address, txid |-> txid,
                      txtype |-> txtype, amount |-> amount, confirmed |-> confirmed,
                      timestamp |-> ts])

create_notification(nf, token, address, txid, txtype, amount, confirmed, ts) ==
    LET key == NotificationKey(token, txid, txtype, amount)
    IN  Put(nf, key, [id |-> key, token |-> token, address |-> address, txid |-> txid,
                      txtype |-> txtype, amount |-> amount, confirmed |-> confirmed,
                      timestamp |-> ts])

\* delete_notifications_by_token without the comparison of the token.
delete_notifications_of_all(nf, token) == <<>>

delete_notifications_by_token(nf, token) ==
    [k \in {x \in DOMAIN nf : nf[x].token # token} |-> nf[k]]

delete_notifications_by_token_and_ids(nf, token, ids) ==
    [k \in {x \in DOMAIN nf : ~(nf[x].token = token /\ x \in ids)} |-> nf[k]]

delete_notifications_by_token_and_address(nf, token, address) ==
    [k \in {x \in DOMAIN nf : ~(nf[x].token = token /\ nf[x].address = address)} |-> nf[k]]

get_notifications_by_token(nf, token) == {nf[k] : k \in {x \in DOMAIN nf : nf[x].token = token}}

\* delete_token leaves the notifications of the token's addresses alone.
delete_token_keep_notifications(st, token) ==
    [st EXCEPT !.address_cf = delete_addresses_by_token(st.address_cf, token),
               !.token_cf = st.token_cf \ {token}]

\* The three partitions delete_token touches, as a record.
delete_token(st, token) ==
    [notification_cf |-> delete_notifications_by_token(st.notification_cf, token),
     address_cf |-> delete_addresses_by_token(st.address_cf, token),
     token_cf |-> st.token_cf \ {token}]

----------------------------------------------------------------------------
(* f64: IEEE-754 binary64 arithmetic, round to nearest even, for the        *)
(* non-negative finite values bitcoin amounts take. A natural number of any *)
(* size is a sequence of limbs in base 2^15, least significant first,       *)
(* without leading zeros; a float is [m, e], the value m * 2^e with m of    *)
(* exactly 53 bits, or zero (m = <<>>).                                     *)

F64_MANTISSA_BITS == 53

LIMB_BITS == 15

Pow2(k) == 2 ^ k

LIMB == Pow2(LIMB_BITS)

RECURSIVE Norm(_)
Norm(a) == IF a # <<>> /\ a[Len(a)] = 0 THEN Norm(SubSeq(a, 1, Len(a) - 1)) ELSE a

RECURSIVE Limbs(_)
Limbs(n) == IF n = 0 THEN <<>> ELSE <<n % LIMB>> \o Limbs(n \div LIMB)

\* The number a sequence of limbs stands for, when it is below 2^31.
RECURSIVE Nat32(_)
Nat32(a) == IF a = <<>> THEN 0 ELSE Head(a) + LIMB * Nat32(Tail(a))

LimbAt(a, i) == IF i \in DOMAIN a THEN a[i] ELSE 0

\* Bit i of a, the least significant being bit 1.
Bit(a, i) ==
    (LimbAt(a, ((i - 1) \div LIMB_BITS) + 1) \div Pow2((i - 1) % LIMB_BITS)) % 2

BitLen(a) ==
    IF a = <<>> THEN 0
    ELSE LIMB_BITS * (Len(a) - 1)
         + (CHOOSE n \in 1..LIMB_BITS : Pow2(n - 1) <= a[Len(a)]
                                        /\ a[Len(a)] < Pow2(n))

RECURSIVE AddFrom(_, _, _, _)
AddFrom(a, b, i, carry) ==
    IF i > Len(a) /\ i > Len(b)
    THEN IF carry = 1 THEN <<1>> ELSE <<>>
    ELSE LET t == LimbAt(a, i) + LimbAt(b, i) + carry
         IN  <<t % LIMB>> \o AddFrom(a, b, i + 1, t \div LIMB)

BAdd(a, b) == Norm(AddFrom(a, b, 1, 0))

\* a - b for a >= b
RECURSIVE SubFrom(_, _, _, _)
SubFrom(a, b, i, borrow) ==
    IF i > Len(a) THEN <<>>
    ELSE LET t == LimbAt(a, i) - LimbAt(b, i) - borrow
         IN  <<t % LIMB>> \o SubFrom(a, b, i + 1, IF t < 0 THEN 1 ELSE 0)

BSub(a, b) == Norm(SubFrom(a, b, 1, 0))

RECURSIVE LessFrom(_, _, _)
LessFrom(a, b, i) ==
    IF i = 0 THEN FALSE
    ELSE IF a[i] # b[i] THEN a[i] < b[i]
    ELSE LessFrom(a, b, i - 1)

BLess(a, b) ==
    IF Len(a) # Len(b) THEN Len(a) < Len(b) ELSE LessFrom(a, b, Len(a))

\* a * k for one limb k
RECURSIVE MulFrom(_, _, _, _)
MulFrom(a, k, i, carry) ==
    IF i > Len(a) THEN Limbs(carry)
    ELSE LET t == a[i] * k + carry
         IN  <<t % LIMB>> \o MulFrom(a, k, i + 1, t \div LIMB)

BMulSmall(a, k) == Norm(MulFrom(a, k, 1, 0))

LimbShift(a, n) == IF a = <<>> THEN <<>> ELSE [i \in 1..n |-> 0] \o a

RECURSIVE MulLimbs(_, _, _)
MulLimbs(a, b, j) ==
    IF j > Len(b) THEN <<>>
    ELSE BAdd(LimbShift(BMulSmall(a, b[j]), j - 1), MulLimbs(a, b, j + 1))

BMul(a, b) == MulLimbs(a, b, 1)

\* Long division of a by a number d of at most 16 bits, from the most
\* significant limb: [q, r] with a = q * d + r.
RECURSIVE DivFrom(_, _, _, _)
DivFrom(a, d, i, r) ==
    IF i = 0 THEN [q |-> <<>>, r |-> r]
    ELSE LET t == LIMB * r + a[i]
             rest == DivFrom(a, d, i - 1, t % d)
         IN  [q |-> rest.q \o <<t \div d>>, r |-> rest.r]

BDivSmall(a, d) ==
    LET x == DivFrom(a, d, Len(a), 0) IN [q |-> Norm(x.q), r |-> x.r]

\* a * 2^n and floor(a / 2^n)
Shl(a, n) == LimbShift(BMulSmall(a, Pow2(n % LIMB_BITS)), n \div LIMB_BITS)

Shr(a, n) ==
    IF n \div LIMB_BITS >= Len(a) THEN <<>>
    ELSE BDivSmall(SubSeq(a, (n \div LIMB_BITS) + 1, Len(a)),
                   Pow2(n % LIMB_BITS)).q

F64Zero == [m |-> <<>>, e |-> 0]

\* Whether n * 2^-d (d >= 1), plus a positive amount below 2^-d when sticky,
\* rounds up to the next integer: it is above the half, or at the half with
\* an odd integer part.
RoundsUp(n, d, sticky) ==
    /\ Bit(n, d) = 1
    /\ sticky \/ Bit(n, d + 1) = 1 \/ \E i \in 1..(d - 1) : Bit(n, i) = 1

\* A rounded mantissa is of 53 bits, or is 2^53 when the rounding carried.
Renormalized(m, e) ==
    IF BitLen(m) > F64_MANTISSA_BITS THEN [m |-> Shr(m, 1), e |-> e + 1]
    ELSE [m |-> m, e |-> e]

\* f64_round for a number that has d bits more than the mantissa holds.
RoundAt(n, e, d, sticky) ==
    IF n = <<>> THEN F64Zero
    ELSE IF d <= 0 THEN [m |-> Shl(n, -d), e |-> e + d]
    ELSE Renormalized(IF RoundsUp(n, d, sticky) THEN BAdd(Shr(n, d), <<1>>) ELSE Shr(n, d),
                      e + d)

\* The float nearest to n * 2^e (plus, when sticky, a positive amount below
\* 2^e), ties to the even mantissa.
f64_round(n, e, sticky) == RoundAt(n, e, BitLen(n) - F64_MANTISSA_BITS, sticky)

\* An integer below 2^31 as a float (exact).
f64_from_u32(n) == f64_round(Limbs(n), 0, FALSE)

\* The smaller of the exponents of two floats (zero has none).
MinExp(a, b) ==
    IF a.m = <<>> THEN b.e
    ELSE IF b.m = <<>> THEN a.e
    ELSE IF a.e < b.e THEN a.e ELSE b.e

\* The mantissa of a over the exponent e <= a.e.
Over(a, e) == Shl(a.m, a.e - e)

f64_lt(a, b) == BLess(Over(a, MinExp(a, b)), Over(b, MinExp(a, b)))

f64_add(a, b) ==
    f64_round(BAdd(Over(a, MinExp(a, b)), Over(b, MinExp(a, b))), MinExp(a, b), FALSE)

\* a - b for a >= b
f64_sub(a, b) ==
    f64_round(BSub(Over(a, MinExp(a, b)), Over(b, MinExp(a, b))), MinExp(a, b), FALSE)

f64_mul(a, b) == f64_round(BMul(a.m, b.m), a.e + b.e, FALSE)

\* x as u64: the integer part (the values of the model are below 2^31).
as_u64(x) == IF x.e >= 0 THEN Nat32(Shl(x.m, x.e)) ELSE Nat32(Shr(x.m, -x.e))

\* The nearest integer instead, halves away from zero.
f64_round_to_u64(x) == IF x.e >= 0 THEN as_u64(x) ELSE as_u64(x) + Bit(x.m, -x.e)

\* The second division by 10^4 of a number divided once, d1 = [q, r].
FirstDivision(d1) == [q |-> BDivSmall(d1.q, 10000), inexact |-> d1.r # 0]

\* The quotient of both divisions, rounded; it is exact when neither left a
\* remainder.
SecondDivision(d2) == f64_round(d2.q.q, -92, d2.inexact \/ d2.q.r # 0)

\* The float a JSON number with eight decimals parses to (bitcoind prints
\* every amount so): sat * 10^-8, correctly rounded, sat being the digits
\* without the point. 10^8 is divided out of sat * 2^92 as 10^4 twice.
parse_f64(sat) ==
    SecondDivision(FirstDivision(BDivSmall(Shl(Limbs(sat), 92), 10000)))

\* The value of a table under a key, or another for a key the table lacks.
Lookup(table, key, other) == IF key \in DOMAIN table THEN table[key] ELSE other

Range(f) == {f[x] : x \in DOMAIN f}

\* The same, looked up for the amounts met most often instead of recomputed.
COMMON_SATS == {69990000}

CommonValues == [sat \in COMMON_SATS |-> parse_f64(sat)]

f64_from_json(sat) == Lookup(CommonValues, sat, parse_f64(sat))

\* The literal 100_000_000.0
SATS_PER_BTC == f64_from_u32(100000000)

\* (tx_out.value * 100_000_000.0) as u64, rounding instead of truncating
to_amount_rounded(value) == f64_round_to_u64(f64_mul(value, SATS_PER_BTC))

\* let amount: u64 = (tx_out.value * 100_000_000.0) as u64;
to_amount(value) == as_u64(f64_mul(value, SATS_PER_BTC))


----------------------------------------------------------------------------
(* The classifier: Processor::process_transaction and queue_notification *)

NoAddress == ""

\* A transaction is [vin |-> sequence of inputs, vout |-> sequence of outputs];
\* an input is [has_prevout, address, value] (its prevout, once attached), an
\* output is [address, value]. A value is the f64 the node's JSON amount, given
\* here by its digits (so in satoshi), parses to. The digits stay beside it as
\* sat, which the classifier never reads: it is what the chain says was moved.
TxIn(address, sat) ==
    [has_prevout |-> TRUE, address |-> address, value |-> parse_f64(sat), sat |-> sat]

TxOut(address, sat) == [address |-> address, value |-> parse_f64(sat), sat |-> sat]

\* Step 1: input values summed by address.
RECURSIVE AggregateInputs(_, _)
AggregateInputs(vin, inputs) ==
    IF vin = <<>> THEN inputs
    ELSE LET input == Head(vin)
         IN  IF input.has_prevout /\ input.address # NoAddress
             THEN AggregateInputs(Tail(vin),
                      IF input.address \in DOMAIN inputs
                      THEN [inputs EXCEPT ![input.address] = f64_add(@, input.value)]
                      ELSE Put(inputs, input.address, input.value))
             ELSE AggregateInputs(Tail(vin), inputs)

\* Step 2 without the comparison against the inputs: every output is incoming.
WalkOutputsAllIncoming(vout, acc) ==
    [acc EXCEPT !.emitted = [i \in DOMAIN vout |->
        [address |-> vout[i].address, txtype |-> "in", value |-> vout[i].value]]]

\* Step 2: the outputs in order; acc is [inputs, emitted].
RECURSIVE WalkOutputs(_, _)
WalkOutputs(vout, acc) ==
    IF vout = <<>> THEN acc
    ELSE LET output == Head(vout)
             a == output.address
         IN  IF a = NoAddress THEN WalkOutputs(Tail(vout), acc)
             ELSE IF a \in DOMAIN acc.inputs
             THEN LET e == IF f64_lt(output.value, acc.inputs[a])
                           THEN [address |-> a, txtype |-> "out",
                                 value |-> f64_sub(acc.inputs[a], output.value)]
                           ELSE [address |-> a, txtype |-> "in",
                                 value |-> f64_sub(output.value, acc.inputs[a])]
                  IN  WalkOutputs(Tail(vout),
                          [inputs |-> Delete(acc.inputs, a),
                           emitted |-> Append(acc.emitted, e)])
             ELSE WalkOutputs(Tail(vout),
                      [acc EXCEPT !.emitted =
                           Append(@, [address |-> a, txtype |-> "in", value |-> output.value])])

\* Every order in which a HashMap may yield the keys of a set.
RECURSIVE Orders(_)
Orders(S) ==
    IF S = {} THEN {<<>>}
    ELSE UNION {{<<x>> \o rest : rest \in Orders(S \ {x})} : x \in S}

\* Step 3: the residual inputs, in the order the map yields them.
Residuals(inputs, order) ==
    [i \in DOMAIN order |->
        [address |-> order[i], txtype |-> "out", value |-> inputs[order[i]]]]

Walked(tx) ==
    WalkOutputs(tx.vout, [inputs |-> AggregateInputs(tx.vin, <<>>), emitted |-> <<>>])

\* The (address, txtype, value) triples process_transaction hands to
\* queue_notification, in call order, for each order in which the map may
\* yield the residual inputs.
classify(tx) ==
    [order \in Orders(DOMAIN Walked(tx).inputs) |->
        Walked(tx).emitted \o Residuals(Walked(tx).inputs, order)]

\* The transactions the node serves to the processors.
\* x1: one input of 1 BTC from A, 0.3 BTC back to A, 0.6999 BTC to B.
TxTable ==
    [x1 |-> [vin |-> <<TxIn("A", 100000000)>>,
             vout |-> <<TxOut("A", 30000000), TxOut("B", 69990000)>>]]

\* The transactions the classifier is given on its own.
\* s4:   1 BTC from A; 0.3 BTC back to A, 0.6999 BTC to B (fee 0.0001).
\* pay:  1 BTC from A; 0.29 BTC to B, 0.7 BTC back to A (fee 0.01).
\* same: 0.5 BTC from A, all of it back to A.
\* two:  0.1 BTC and 0.2 BTC from A; 0.3 BTC to B.
ClassifyTable ==
    [s4 |-> [vin |-> <<TxIn("A", 100000000)>>,
             vout |-> <<TxOut("A", 30000000), TxOut("B", 69990000)>>],
     pay |-> [vin |-> <<TxIn("A", 100000000)>>,
              vout |-> <<TxOut("B", 29000000), TxOut("A", 70000000)>>],
     same |-> [vin |-> <<TxIn("A", 50000000)>>,
               vout |-> <<TxOut("A", 50000000)>>],
     two |-> [vin |-> <<TxIn("A", 10000000), TxIn("A", 20000000)>>,
              vout |-> <<TxOut("B", 30000000)>>]]

\* An input whose prevout is None: a coinbase input, or one whose previous
\* transaction could not be fetched.
TxInNoPrevout == [has_prevout |-> FALSE, address |-> NoAddress, value |-> F64Zero, sat |-> 0]

\* Transactions that spend from an address and pay back to it, or spend it whole.
\* back:  0.03 BTC from A; 0.01 BTC back to A, 0.0199 BTC to B.
\* gain:  0.01 BTC from A and 0.03 BTC from B; 0.03 BTC to A.
\* sum:   0.01 BTC and 0.06 BTC from A; 0.0699 BTC to B.
\* mixed: 0.1 BTC from A, an input without prevout, 0.5 BTC from a prevout
\*        without address, 0.2 BTC from A; 0.2 BTC to B and 0.0999 BTC to B.
SpendTable ==
    [back |-> [vin |-> <<TxIn("A", 3000000)>>,
               vout |-> <<TxOut("A", 1000000), TxOut("B", 1990000)>>],
     gain |-> [vin |-> <<TxIn("A", 1000000), TxIn("B", 3000000)>>,
               vout |-> <<TxOut("A", 3000000)>>],
     sum |-> [vin |-> <<TxIn("A", 1000000), TxIn("A", 6000000)>>,
              vout |-> <<TxOut("B", 6990000)>>],
     mixed |-> [vin |-> <<TxIn("A", 10000000), TxInNoPrevout, TxIn(NoAddress, 50000000),
                          TxIn("A", 20000000)>>,
                vout |-> <<TxOut("B", 20000000), TxOut("B", 9990000)>>]]

\* Transactions that move the same amount to or from two addresses.
\* twin: 1 BTC from C; 0.3 BTC to A, 0.3 BTC to B, 0.3999 BTC back to C.
\* pair: 0.2 BTC from A and 0.2 BTC from B; 0.3999 BTC to C.
TwinTable ==
    [twin |-> [vin |-> <<TxIn("C", 100000000)>>,
               vout |-> <<TxOut("A", 30000000), TxOut("B", 30000000),
                          TxOut("C", 39990000)>>],
     pair |-> [vin |-> <<TxIn("A", 20000000), TxIn("B", 20000000)>>,
               vout |-> <<TxOut("C", 39990000)>>]]

\* What the classifier computes for the transactions above, computed once.
KnownTxs ==
    Range(TxTable) \cup Range(ClassifyTable) \cup Range(SpendTable) \cup Range(TwinTable)

KnownTriples == [tx \in KnownTxs |-> classify(tx)]

Classification(tx) == Lookup(KnownTriples, tx, classify(tx))

ResidualOrders(tx) == DOMAIN Classification(tx)

process_transaction(tx, order) == Classification(tx)[order]

\* The values among the triples of a table of classifications.
ValuesOf(table) ==
    UNION {UNION {{table[tx][order][i].value : i \in DOMAIN table[tx][order]} :
                     order \in DOMAIN table[tx]} : tx \in DOMAIN table}

\* The amounts of the values above, computed once.
KnownAmounts ==
    [value \in ValuesOf(KnownTriples) \cup Range(CommonValues) |-> to_amount(value)]

amount_of(value) == Lookup(KnownAmounts, value, to_amount(value))

\* What one create_notification call stored, for the history: the entries of the
\* partition that carry exactly the call's fields, without the timestamp.
Stored(nf, token, address, txid, txtype, amount, confirmed, ts) ==
    {[id |-> k, token |-> token, address |-> address, txid |-> txid, txtype |-> txtype,
      amount |-> amount, confirmed |-> confirmed] :
        k \in {x \in DOMAIN nf :
                 nf[x] = [id |-> x, token |-> token, address |-> address, txid |-> txid,
                          txtype |-> txtype, amount |-> amount, confirmed |-> confirmed,
                          timestamp |-> ts]}}

\* create_notification for the first token of the record only.
NotifyFirstToken(acc, tokens, address, txid, txtype, amount, confirmed, ts) ==
    IF tokens = <<>> THEN acc
    ELSE LET nf1 == create_notification(acc.nf, Head(tokens), address, txid, txtype,
                                        amount, confirmed, ts)
         IN  [nf |-> nf1,
              log |-> acc.log \cup Stored(nf1, Head(tokens), address, txid, txtype,
                                          amount, confirmed, ts)]

\* create_notification for each token of the record, in the record's order;
\* acc is [nf, log]: the partition and the history of what was stored.
RECURSIVE NotifyTokens(_, _, _, _, _, _, _, _)
NotifyTokens(acc, tokens, address, txid, txtype, amount, confirmed, ts) ==
    IF tokens = <<>> THEN acc
    ELSE LET nf1 == create_notification(acc.nf, Head(tokens), address, txid, txtype,
                                        amount, confirmed, ts)
         IN  NotifyTokens(
                 [nf |-> nf1,
                  log |-> acc.log \cup Stored(nf1, Head(tokens), address, txid, txtype,
                                              amount, confirmed, ts)],
                 Tail(tokens), address, txid, txtype, amount, confirmed, ts)

\* A triple for an address that has no record is dropped.
queue_notification(acc, ad, txid, e, confirmed, ts) ==
    IF e.address # NoAddress /\ e.address \in DOMAIN ad
    THEN NotifyTokens(acc, ad[e.address], e.address, txid, e.txtype, amount_of(e.value),
                      confirmed, ts)
    ELSE acc

RECURSIVE QueueAll(_, _, _, _, _, _)
QueueAll(acc, ad, txid, emitted, confirmed, ts) ==
    IF emitted = <<>> THEN acc
    ELSE QueueAll(queue_notification(acc, ad, txid, Head(emitted), confirmed, ts),
                  ad, txid, Tail(emitted), confirmed, ts)

----------------------------------------------------------------------------
(* bitcoin::address: extended public keys and the addresses derived from   *)
(* them. What the bitcoin crate computes (base58check, BIP32, secp256k1,   *)
(* the address encodings) is modelled by its outcome: a key string is      *)
(* known by how its parse ends, a child key by the path that leads to it,  *)
(* an address by what it encodes.                                          *)

\* A string of the given length whose first four bytes are prefix, which is a
\* base58check encoding (check) of a payload of the given length, of which,
\* when it has the 78 bytes of an extended key, bytes 45..78 are a point of
\* the curve or not; id names the key.
KeyString(bytes, prefix, check, payload, point, id) ==
    [bytes |-> bytes, prefix |-> prefix, check |-> check, payload |-> payload,
     point |-> point, id |-> id]

\* The strings handed in as extended public keys.
\*   xpubK1..3, ypubK1, zpubK1, ZpubK1: extended public keys with the version
\*       bytes of their prefix
\*   xpubBadCheck: xpubK1 with its last character changed (tests::invalid_pubkey)
\*   xpubBadPoint: an xpub whose key bytes are 02 ff..ff
\*   address: 12dRugNcdxK39288NjcDV4GX7rMsKCGn6B, base58check of 21 bytes
\*   WAJ3Feu: base58check of the two bytes 01 02
\*   ab: a string of two characters
KeyStrings ==
    [xpubK1 |-> KeyString(111, "xpub", TRUE, 78, TRUE, 1),
     xpubK2 |-> KeyString(111, "xpub", TRUE, 78, TRUE, 2),
     xpubK3 |-> KeyString(111, "xpub", TRUE, 78, TRUE, 3),
     ypubK1 |-> KeyString(111, "ypub", TRUE, 78, TRUE, 1),
     zpubK1 |-> KeyString(111, "zpub", TRUE, 78, TRUE, 1),
     ZpubK1 |-> KeyString(111, "Zpub", TRUE, 78, TRUE, 1),
     xpubBadCheck |-> KeyString(111, "xpub", FALSE, 0, FALSE, 0),
     xpubBadPoint |-> KeyString(111, "xpub", TRUE, 78, FALSE, 0),
     address |-> KeyString(34, "12dR", TRUE, 21, FALSE, 0),
     WAJ3Feu |-> KeyString(7, "WAJ3", TRUE, 2, FALSE, 0),
     ab |-> KeyString(2, "ab", FALSE, 0, FALSE, 0)]

\* The outcomes of a call: a value, or the panic that ends the calling thread.
None == [tag |-> "None", value |-> <<>>]

Some(value) == [tag |-> "Some", value |-> value]

Panic == [tag |-> "Panic", value |-> <<>>]

\* convert_to_xpub: None when base58::from_check fails; data[4..] panics when
\* the payload is shorter than four bytes; otherwise the xpub version bytes
\* followed by the payload without its first four.
convert_to_xpub(public_key) ==
    IF ~KeyStrings[public_key].check THEN None
    ELSE IF KeyStrings[public_key].payload < 4 THEN Panic
    ELSE Some([len |-> 4 + (KeyStrings[public_key].payload - 4),
               point |-> KeyStrings[public_key].point,
               id |-> KeyStrings[public_key].id])

\* ExtendedPubKey::decode(..).unwrap(): the data must be 78 bytes that end in
\* a point of the curve.
decode_unwrap(data) == IF data.len = 78 /\ data.point THEN Some(data.id) ELSE Panic

\* A u32 as its top bit and its low 31 bits.
U32(top, low) == [top |-> top, low |-> low]

U32Less(a, b) == a.top < b.top \/ (a.top = b.top /\ a.low < b.low)

U32Succ(a) == IF a.low = 2147483647 THEN U32(a.top + 1, 0) ELSE U32(a.top, a.low + 1)

\* ChildNumber::from_normal_idx: Ok when index & (1 << 31) == 0.
from_normal_idx(index) == index.top = 0

\* xpub.derive_pub(secp, [change, index]).public_key: the child of key id at
\* change/index.
derive_pub(id, change, index) == <<id, change, index.low>>

\* The order of PublicKey: that of the serialized compressed keys. Which of
\* the children of two keys comes first changes with the path.
SortKey(child) == (child[1] * (1 + 2 * (child[3] % 5) + child[2])) % 11

PublicKeyLess(a, b) == SortKey(a) < SortKey(b)

ChangeOf(is_change) == IF is_change THEN 1 ELSE 0

\* Address::p2pkh / p2shwpkh / p2wpkh(..).to_string()
SinglesigAddress(kind, child) == ToString(<<kind, child>>)

\* The body of the loop of from_singlesig for one index.
SinglesigPush(addresses, prefix, child) ==
    IF prefix = "xpub" THEN Append(addresses, SinglesigAddress("p2pkh", child))
    ELSE IF prefix = "ypub" THEN Append(addresses, SinglesigAddress("p2shwpkh", child))
    ELSE IF prefix = "zpub" THEN Append(addresses, SinglesigAddress("p2wpkh", child))
    ELSE addresses

\* for index in from_index..=to_index
RECURSIVE SinglesigLoop(_, _, _, _, _, _)
SinglesigLoop(prefix, id, change, index, to_index, addresses) ==
    IF U32Less(to_index, index) THEN Some(addresses)
    ELSE IF ~from_normal_idx(index) THEN Panic
    ELSE IF index = to_index
    THEN Some(SinglesigPush(addresses, prefix, derive_pub(id, change, index)))
    ELSE SinglesigLoop(prefix, id, change, U32Succ(index), to_index,
                       SinglesigPush(addresses, prefix, derive_pub(id, change, index)))

from_singlesig(public_key, from_index, to_index, is_change) ==
    IF convert_to_xpub(public_key).tag # "Some" THEN convert_to_xpub(public_key)
    ELSE IF decode_unwrap(convert_to_xpub(public_key).value).tag = "Panic" THEN Panic
    ELSE SinglesigLoop(KeyStrings[public_key].prefix,
                       decode_unwrap(convert_to_xpub(public_key).value).value,
                       ChangeOf(is_change), from_index, to_index, <<>>)

ScriptTypes == {"p2wsh", "p2shwsh", "p2sh"}

Err(error) == [tag |-> "Err", value |-> error]

\* The prefix comparison of Multisig::new: item[0..4] panics on a string
\* shorter than four bytes; all() stops at the first key that differs.
RECURSIVE SamePrefixes(_, _)
SamePrefixes(public_keys, first) ==
    IF public_keys = <<>> THEN Some(TRUE)
    ELSE IF KeyStrings[Head(public_keys)].bytes < 4 \/ KeyStrings[first].bytes < 4 THEN Panic
    ELSE IF KeyStrings[Head(public_keys)].prefix # KeyStrings[first].prefix THEN Some(FALSE)
    ELSE SamePrefixes(Tail(public_keys), first)

\* The keys that convert are decoded and pushed; acc is the vector so far.
RECURSIVE DecodeAll(_, _)
DecodeAll(public_keys, acc) ==
    IF public_keys = <<>> THEN Some(acc)
    ELSE IF convert_to_xpub(Head(public_keys)).tag = "Panic" THEN Panic
    ELSE IF convert_to_xpub(Head(public_keys)).tag = "None"
    THEN DecodeAll(Tail(public_keys), acc)
    ELSE IF decode_unwrap(convert_to_xpub(Head(public_keys)).value).tag = "Panic" THEN Panic
    ELSE DecodeAll(Tail(public_keys),
                   Append(acc, decode_unwrap(convert_to_xpub(Head(public_keys)).value).value))

Multisig_new(script_type, required_signatures, public_keys) ==
    IF script_type \notin ScriptTypes THEN Err("InvalidScriptType")
    ELSE IF public_keys = <<>> THEN Err("PublicKeysEmpty")
    ELSE IF required_signatures > Len(public_keys) THEN Err("InvalidSignatureNumber")
    ELSE IF SamePrefixes(public_keys, public_keys[1]).tag = "Panic" THEN Panic
    ELSE IF ~SamePrefixes(public_keys, public_keys[1]).value
    THEN Err("PublicKeysWithDifferentScriptTypes")
    ELSE IF DecodeAll(public_keys, <<>>).tag = "Panic" THEN Panic
    ELSE IF Len(DecodeAll(public_keys, <<>>).value) # Len(public_keys)
    THEN Err("InvalidXPubKeysNumber")
    ELSE [tag |-> "Ok",
          value |-> [script_type |-> script_type,
                     required_signatures |-> required_signatures,
                     xpub_keys |-> DecodeAll(public_keys, <<>>).value]]

\* The script m <keys> n OP_CHECKMULTISIG and its address of the given type.
MultisigAddress(script_type, required_signatures, pubkeys) ==
    ToString(<<script_type, required_signatures, pubkeys, Len(pubkeys)>>)

\* Multisig::derive without pubkeys.sort().
Multisig_derive_unsorted(multisig, index, is_change) ==
    IF ~from_normal_idx(index) THEN Panic
    ELSE Some(MultisigAddress(
             multisig.script_type, multisig.required_signatures,
             [i \in DOMAIN multisig.xpub_keys |->
                 derive_pub(multisig.xpub_keys[i], ChangeOf(is_change), index)]))

Multisig_derive(multisig, index, is_change) ==
    IF ~from_normal_idx(index) THEN Panic
    ELSE Some(MultisigAddress(
             multisig.script_type, multisig.required_signatures,
             SortSeq([i \in DOMAIN multisig.xpub_keys |->
                         derive_pub(multisig.xpub_keys[i], ChangeOf(is_change), index)],
                     PublicKeyLess)))

\* The index ranges the front ends ask for: within the first indexes, empty,
\* and around the first index that has its top bit set.
IndexRanges ==
    {<<U32(0, 0), U32(0, 0)>>, <<U32(0, 0), U32(0, 1)>>, <<U32(0, 1), U32(0, 1)>>,
     <<U32(0, 1), U32(0, 0)>>, <<U32(0, 2147483647), U32(0, 2147483647)>>,
     <<U32(0, 2147483647), U32(1, 0)>>, <<U32(1, 0), U32(1, 0)>>}

\* The addresses from_singlesig returns for the keys and ranges of the model.
DerivedAddresses ==
    UNION {Range(from_singlesig(key, r[1], r[2], c).value) :
              key \in DOMAIN KeyStrings, r \in IndexRanges, c \in BOOLEAN}

----------------------------------------------------------------------------
(* bitcoin::address::is_address: the strings the model uses *)

ValidAddresses == {"A", "B"}

InvalidAddresses == {"test"}

is_address(address) == address \in ValidAddresses \cup DerivedAddresses

----------------------------------------------------------------------------
(* CoreApi *)

subscribe_strict(tk, token) ==
    LET r == create_token(tk, token)
    IN  [result |-> IF r.result = "Ok" THEN "Ok" ELSE "Db", db |-> r.result,
         token_cf |-> r.token_cf]

\* AlreadyExist becomes success, every other error is Error::Db.
subscribe(tk, token) ==
    LET r == create_token(tk, token)
    IN  [result |-> IF r.result \in {"Ok", "AlreadyExist"} THEN "Ok" ELSE "Db",
         db |-> r.result, token_cf |-> r.token_cf]

\* add_addresses giving up at the first invalid entry.
RECURSIVE add_addresses_until_invalid(_, _, _)
add_addresses_until_invalid(ad, token, addresses) ==
    IF addresses = <<>> \/ ~is_address(Head(addresses)) THEN ad
    ELSE add_addresses_until_invalid(create_address(ad, token, Head(addresses)),
                                     token, Tail(addresses))

\* create_address for each valid address of the list, in order.
RECURSIVE add_addresses(_, _, _)
add_addresses(ad, token, addresses) ==
    IF addresses = <<>> THEN ad
    ELSE add_addresses(IF is_address(Head(addresses))
                       THEN create_address(ad, token, Head(addresses))
                       ELSE ad,
                       token, Tail(addresses))

\* delete_address_and_notifications for each valid address; st is
\* [notification_cf, address_cf].
RECURSIVE delete_addresses(_, _, _)
delete_addresses(st, token, addresses) ==
    IF addresses = <<>> THEN st
    ELSE delete_addresses(
             IF is_address(Head(addresses))
             THEN [notification_cf |->
                       delete_notifications_by_token_and_address(st.notification_cf, token,
                                                                 Head(addresses)),
                   address_cf |-> delete_address(st.address_cf, token, Head(addresses))]
             ELSE st,
             token, Tail(addresses))

----------------------------------------------------------------------------
(* The model's universe *)

T1 == <<Run("a", 64)>>

T2 == <<Run("b", 64)>>

\* One character short of a token.
TShort == <<Run("c", 49)>>

Tokens == {T1, T2}

AddressLists == {<<"A">>, <<"B">>, <<"test">>, <<"A", "test", "B">>}

\* existing: whether what the call creates was in the store before the call.
\* emitted: the notifications a classification handed to the store.
\* returned: what a read handed back.
NoOp == [op |-> "none", token |-> <<>>, address |-> "", addresses |-> <<>>,
         key |-> <<>>, db |-> "", result |-> "", existing |-> FALSE, emitted |-> <<>>,
         returned |-> {}]

Called(op, token, result) == [NoOp EXCEPT !.op = op, !.token = token, !.result = result]

----------------------------------------------------------------------------
(* Front-end calls of the Core API, each one call *)

Subscribe(t) ==
    LET r == subscribe(token_cf, t)
    IN  /\ token_cf' = r.token_cf
        /\ lastOp' = [Called("subscribe", t, r.result) EXCEPT
                          !.db = r.db, !.existing = token_exist(token_cf, t)]
        /\ UNCHANGED <<last_processed_block, address_cf, notification_cf, mempool_cf>>

\* delete_token removing the cursor with the token.
UnsubscribeDroppingCursor(t) ==
    /\ last_processed_block' = NONE
    /\ token_cf' = token_cf \ {t}
    /\ lastOp' = Called("unsubscribe", t, "Ok")
    /\ UNCHANGED <<address_cf, notification_cf, mempool_cf>>

Unsubscribe(t) ==
    LET r == delete_token([notification_cf |-> notification_cf, address_cf |-> address_cf,
                           token_cf |-> token_cf], t)
    IN  /\ notification_cf' = r.notification_cf
        /\ address_cf' = r.address_cf
        /\ token_cf' = r.token_cf
        /\ lastOp' = [Called("unsubscribe", t, "Ok") EXCEPT
               !.existing = /\ get_notifications_by_token(notification_cf, t) # {}
                            /\ \E a \in DOMAIN address_cf : address_cf[a] = <<t>>
                            /\ \E a \in DOMAIN address_cf :
                                   Contains(address_cf[a], t) /\ address_cf[a] # <<t>>]
        /\ UNCHANGED <<last_processed_block, mempool_cf>>

AddAddresses(t, list) ==
    /\ address_cf' = add_addresses(address_cf, t, list)
    /\ lastOp' = [Called("add_addresses", t, "Ok") EXCEPT !.addresses = list]
    /\ UNCHANGED <<last_processed_block, token_cf, notification_cf, mempool_cf>>

DeleteAddresses(t, list) ==
    LET r == delete_addresses([notification_cf |-> notification_cf,
                               address_cf |-> address_cf], t, list)
    IN  /\ notification_cf' = r.notification_cf
        /\ address_cf' = r.address_cf
        /\ lastOp' = [Called("delete_addresses", t, "Ok") EXCEPT !.addresses = list]
        /\ UNCHANGED <<last_processed_block, token_cf, mempool_cf>>

SinglesigResult(r) ==
    IF r.tag = "Some" THEN "Ok" ELSE IF r.tag = "None" THEN "InvalidArgs" ELSE "Panic"

AddAddressesFromSinglesig(t, public_key, from_index, to_index, is_change) ==
    LET r == from_singlesig(public_key, from_index, to_index, is_change)
    IN  /\ address_cf' = IF r.tag = "Some" THEN add_addresses(address_cf, t, r.value)
                         ELSE address_cf
        /\ lastOp' = [Called("add_addresses_from_singlesig", t, SinglesigResult(r)) EXCEPT
               !.key = <<public_key, from_index, to_index, is_change>>,
               !.addresses = r.value]
        /\ UNCHANGED <<last_processed_block, token_cf, notification_cf, mempool_cf>>

DeleteAddressesFromSinglesig(t, public_key, from_index, to_index, is_change) ==
    LET r == from_singlesig(public_key, from_index, to_index, is_change)
        st == IF r.tag = "Some"
              THEN delete_addresses([notification_cf |-> notification_cf,
                                     address_cf |-> address_cf], t, r.value)
              ELSE [notification_cf |-> notification_cf, address_cf |-> address_cf]
    IN  /\ notification_cf' = st.notification_cf
        /\ address_cf' = st.address_cf
        /\ lastOp' = [Called("delete_addresses_from_singlesig", t, SinglesigResult(r)) EXCEPT
               !.key = <<public_key, from_index, to_index, is_change>>,
               !.addresses = r.value]
        /\ UNCHANGED <<last_processed_block, token_cf, mempool_cf>>

\* Multisig::new(script_type, required_signatures, public_keys) and, when it
\* returns Ok, derive(secp, index, is_change) on the value; nothing is stored.
MultisigDerive(script_type, required_signatures, public_keys, index, is_change) ==
    LET multisig == Multisig_new(script_type, required_signatures, public_keys)
        derived == IF multisig.tag = "Ok" THEN Multisig_derive(multisig.value, index, is_change)
                   ELSE None
    IN  /\ lastOp' = [NoOp EXCEPT
               !.op = "Multisig::derive",
               !.key = <<script_type, required_signatures, public_keys, index, is_change>>,
               !.result = IF multisig.tag = "Err" THEN multisig.value ELSE multisig.tag,
               !.db = derived.tag,
               !.address = IF derived.tag = "Some" THEN derived.value ELSE ""]
        /\ UNCHANGED store

\* The body of delete_addresses_from_multisig for one derived address.
DeleteAddress(t, a) ==
    /\ address_cf' = delete_address(address_cf, t, a)
    /\ lastOp' = [Called("delete_address", t, "Ok") EXCEPT
           !.address = a,
           !.existing = a \in DOMAIN address_cf /\ Contains(address_cf[a], t)]
    /\ UNCHANGED <<last_processed_block, token_cf, notification_cf, mempool_cf>>

\* CoreApi::notifications
Notifications(t) ==
    /\ lastOp' = [Called("notifications", t, "Ok") EXCEPT
           !.returned = get_notifications_by_token(notification_cf, t)]
    /\ UNCHANGED store

DeleteNotificationById(t, id) ==
    /\ notification_cf' = delete_notifications_by_token_and_ids(notification_cf, t, {id})
    /\ lastOp' = [Called("delete_notification_by_id", t, "Ok") EXCEPT !.key = id]
    /\ UNCHANGED <<last_processed_block, token_cf, address_cf, mempool_cf>>

DeleteAllNotifications(t) ==
    /\ notification_cf' = delete_notifications_by_token(notification_cf, t)
    /\ lastOp' = Called("delete_all_notifications", t, "Ok")
    /\ UNCHANGED <<last_processed_block, token_cf, address_cf, mempool_cf>>

----------------------------------------------------------------------------
(* The chain the node serves, and the clock *)

NotSent == -1

InMempool == 0

Txids == DOMAIN TxTable

\* Processor::run, const OFFSET
OFFSET == 5

\* cleaner.rs: 24 * 60 * 60 and 30 * 24 * 60 * 60
MEMPOOL_TTL == 86400

NOTIFICATION_TTL == 2592000

\* The chain height when the service starts, and how far the model lets it grow.
\* Processor::run starts once the node is on main net and fully synced
\* (bitcoin/mod.rs), so the height is at least OFFSET and data - OFFSET does not
\* wrap.
Tip0 == 5

MaxBlocks == 6

\* The clock: at most MaxMonths steps of 30 days, MaxDays steps of a day within
\* a month and MaxSecs steps of a second within a day.
MaxMonths == 1

MaxDays == 1

MaxSecs == 1

\* A delivery count stops at MaxPresented.
MaxPresented == 2

TipOk == tip < Tip0 + MaxBlocks

Broadcast(x) ==
    /\ txState[x] = NotSent
    /\ txState' = [txState EXCEPT ![x] = InMempool]
    /\ UNCHANGED <<store, now, tip, node, bitcoin, requests, procs, hist>>

\* A block is found; it confirms any of the transactions not yet confirmed. The
\* height of the node's best chain never decreases.
Mine(S) ==
    /\ TipOk
    /\ \A x \in S : txState[x] \in {NotSent, InMempool}
    /\ tip' = tip + 1
    /\ txState' = [x \in Txids |-> IF x \in S THEN tip + 1 ELSE txState[x]]
    /\ UNCHANGED <<store, now, node, bitcoin, requests, procs, hist>>

\* A sweep of a cleaner takes less than a day: the clock moves by seconds while
\* one is under way.
Tick(d) ==
    /\ d > 1 => ncl.pc = "idle" /\ mcl.pc = "idle"
    /\ d = 1 => now % MEMPOOL_TTL < MaxSecs
    /\ d = MEMPOOL_TTL => (now % NOTIFICATION_TTL) \div MEMPOOL_TTL < MaxDays
    /\ d = NOTIFICATION_TTL => now \div NOTIFICATION_TTL < MaxMonths
    /\ now' = now + d
    /\ UNCHANGED <<store, tip, txState, node, bitcoin, requests, procs, hist>>

----------------------------------------------------------------------------
(* Bitcoin::run: the preflight loop of the "bitcoin" thread *)

\* if network_info.version < 220000
MIN_VERSION == 220000

\* A node that passes the preflight.
SyncedNode ==
    [chain |-> "main", pruned |-> FALSE, version |-> MIN_VERSION, network_active |-> TRUE,
     peers |-> 1, headers |-> 1, blocks |-> 1, txindex |-> "synced"]

\* What the node may report: test net or main net, pruned or not, a version
\* below 22.0 or 22.0, P2P on or off, no peer or one, the block download one
\* block behind the headers or level with them, and the transaction index
\* disabled, catching up or synced.
NodeStates ==
    [chain : {"main", "test"}, pruned : BOOLEAN, version : {MIN_VERSION - 100, MIN_VERSION},
     network_active : BOOLEAN, peers : {0, 1}, headers : {1}, blocks : {0, 1},
     txindex : {"disabled", "syncing", "synced"}]

\* RpcError: BadResult, and the kinds the code leaves to the wildcard arm.
RpcErrorKinds == {"BadResult", "Network"}

NotRead == [tag |-> "NotRead"]

\* The thread at the head of its loop.
Preflight ==
    [pc |-> "get_blockchain_info", blockchain_info |-> NotRead, network_info |-> NotRead,
     peers_info |-> NotRead, index_info |-> NotRead, panic |-> ""]

\* The thread after Processor::run has spawned the two processors.
Started == [Preflight EXCEPT !.pc = "Processor::run"]

\* thread::sleep; continue
SleepAndRetry == Preflight

\* The node's state changes under the thread, one report at a time.
NodeChanges ==
    /\ bitcoin.pc \notin {"Processor::run", "panicked"}
    /\ \E n \in NodeStates :
           /\ Cardinality({f \in DOMAIN n : n[f] # node[f]}) = 1
           /\ node' = n
    /\ UNCHANGED <<store, now, tip, txState, bitcoin, requests, procs, hist>>

\* An RPC call of the preflight fails: get_blockchain_info, get_network_info
\* and get_peer_info sleep 60 and retry on any error, get_index_info on
\* BadResult only; any other error of get_index_info is a panic.
PfRpcErr ==
    /\ bitcoin.pc \in {"get_blockchain_info", "get_network_info", "get_peer_info",
                       "get_index_info"}
    /\ \E kind \in RpcErrorKinds :
           bitcoin' = IF bitcoin.pc = "get_index_info" /\ kind # "BadResult"
                      THEN [bitcoin EXCEPT !.pc = "panicked", !.panic = "txindex not enabled",
                                           !.index_info = [tag |-> "Err", kind |-> kind]]
                      ELSE SleepAndRetry
    /\ UNCHANGED <<store, now, tip, txState, node, requests, procs, hist>>

PfGetBlockchainInfo ==
    /\ bitcoin.pc = "get_blockchain_info"
    /\ bitcoin' = [bitcoin EXCEPT
           !.pc = "get_network_info",
           !.blockchain_info = [tag |-> "Ok", chain |-> node.chain, pruned |-> node.pruned,
                                headers |-> node.headers, blocks |-> node.blocks]]
    /\ UNCHANGED <<store, now, tip, txState, node, requests, procs, hist>>

PfGetNetworkInfo ==
    /\ bitcoin.pc = "get_network_info"
    /\ bitcoin' = [bitcoin EXCEPT
           !.pc = "get_peer_info",
           !.network_info = [tag |-> "Ok", version |-> node.version,
                             network_active |-> node.network_active]]
    /\ UNCHANGED <<store, now, tip, txState, node, requests, procs, hist>>

PfGetPeerInfo ==
    /\ bitcoin.pc = "get_peer_info"
    /\ bitcoin' = [bitcoin EXCEPT !.pc = "get_index_info",
                                  !.peers_info = [tag |-> "Ok", len |-> node.peers]]
    /\ UNCHANGED <<store, now, tip, txState, node, requests, procs, hist>>

\* get_index_info on a node without txindex has no txindex entry to
\* deserialize: an error that is not BadResult, and the thread panics.
PfGetIndexInfo ==
    /\ bitcoin.pc = "get_index_info"
    /\ bitcoin' = IF node.txindex = "disabled"
                  THEN [bitcoin EXCEPT !.pc = "panicked", !.panic = "txindex not enabled",
                                       !.index_info = [tag |-> "Err", kind |-> "NoTxindex"]]
                  ELSE [bitcoin EXCEPT !.pc = "checks",
                                       !.index_info = [tag |-> "Ok",
                                                       synced |-> node.txindex = "synced"]]
    /\ UNCHANGED <<store, now, tip, txState, node, requests, procs, hist>>

\* The checks without the test of txindex.synced.
preflight_checks_ignoring_txindex(blockchain_info, network_info, peers_info, index_info) ==
    IF blockchain_info.chain # "main" THEN "invalid blockchain network"
    ELSE IF blockchain_info.pruned THEN "prune mode enabled"
    ELSE IF network_info.version < MIN_VERSION THEN "Bitcoin Core version incompatible"
    ELSE IF ~network_info.network_active THEN "P2P network not enabled"
    ELSE IF peers_info.len = 0 THEN "sleep"
    ELSE IF blockchain_info.headers - blockchain_info.blocks = 0 THEN "break"
    ELSE "sleep"

\* The checks that follow the four requests, in the order of the code: the panic
\* message, "sleep" (thread::sleep(10); continue) or "break".
preflight_checks(blockchain_info, network_info, peers_info, index_info) ==
    IF blockchain_info.chain # "main" THEN "invalid blockchain network"
    ELSE IF blockchain_info.pruned THEN "prune mode enabled"
    ELSE IF network_info.version < MIN_VERSION THEN "Bitcoin Core version incompatible"
    ELSE IF ~network_info.network_active THEN "P2P network not enabled"
    ELSE IF peers_info.len = 0 THEN "sleep"
    ELSE IF blockchain_info.headers - blockchain_info.blocks = 0
         THEN IF ~index_info.synced THEN "sleep" ELSE "break"
    ELSE "sleep"

\* The checks, and after the break Processor::run, which spawns the block
\* processor and the mempool processor.
PfChecks ==
    /\ bitcoin.pc = "checks"
    /\ LET outcome == preflight_checks(bitcoin.blockchain_info, bitcoin.network_info,
                                       bitcoin.peers_info, bitcoin.index_info)
       IN  bitcoin' = IF outcome = "break" THEN [bitcoin EXCEPT !.pc = "Processor::run"]
                      ELSE IF outcome = "sleep" THEN SleepAndRetry
                      ELSE [bitcoin EXCEPT !.pc = "panicked", !.panic = outcome]
    /\ UNCHANGED <<store, now, tip, txState, node, requests, procs, hist>>

----------------------------------------------------------------------------
(* Processor::run, block_processor thread *)

should_wait_strict(block_height, last) == block_height < last

\* processor.rs: if block_height <= last_processed_block { sleep; continue }
should_wait(block_height, last) == block_height <= last

next_block_to_process_skip(last) == last + 2

next_block_to_process(last) == last + 1

\* get_block_count fails: sleep 60, continue.
\* get_block_count fails: sleep 60. rpc_error records, for the iteration
\* under way, that a call to the node failed.
BpGetBlockCountErr ==
    /\ bp.pc = "count"
    /\ bp' = [bp EXCEPT !.rpc_error = TRUE]
    /\ UNCHANGED <<store, env, ncl, mcl, lastTip, mp, sub, hist>>

BpGetBlockCount ==
    /\ bp.pc = "count"
    /\ tip >= OFFSET
    /\ lastTip' = tip
    /\ bp' = [bp EXCEPT !.pc = "cursor", !.block_height = tip - OFFSET,
                        !.rpc_error = FALSE]
    /\ UNCHANGED <<store, env, ncl, mcl, mp, sub, hist>>

\* The cursor created one below the target height, so that the iteration that
\* creates it goes on to process a block.
BpReadCursorFromBelow ==
    /\ bp.pc = "cursor"
    /\ LET last == IF last_processed_block = NONE THEN bp.block_height - 1
                   ELSE last_processed_block
       IN  /\ last_processed_block' = last
           /\ bp' = [bp EXCEPT !.last = last,
                               !.initial = IF last_processed_block = NONE THEN last ELSE @,
                               !.pc = IF should_wait(bp.block_height, last)
                                      THEN "count" ELSE "fetch"]
    /\ UNCHANGED <<token_cf, address_cf, notification_cf, mempool_cf, env, ncl, mcl, lastTip,
                   mp, sub, hist>>

\* get_last_processed_block, the cursor's creation when it is absent, and the
\* comparison with the target height. initial records the value the cursor
\* was created with.
BpReadCursor ==
    /\ bp.pc = "cursor"
    /\ LET last == IF last_processed_block = NONE THEN bp.block_height
                   ELSE last_processed_block
       IN  /\ last_processed_block' = last
           /\ bp' = [bp EXCEPT !.last = last,
                               !.initial = IF last_processed_block = NONE THEN last ELSE @,
                               !.pc = IF should_wait(bp.block_height, last)
                                      THEN "count" ELSE "fetch"]
    /\ UNCHANGED <<token_cf, address_cf, notification_cf, mempool_cf, env, ncl, mcl, lastTip,
                   mp, sub, hist>>

\* process_block: get_block_hash or get_block fails; sleep 60, no advance.
\* blocks records the heights of the blocks process_block went on to classify.
BpFetchBlockErr ==
    /\ bp.pc = "fetch"
    /\ bp' = [bp EXCEPT !.pc = "count", !.rpc_error = TRUE]
    /\ UNCHANGED <<store, env, ncl, mcl, lastTip, mp, sub, hist>>

BpFetchBlock ==
    /\ bp.pc = "fetch"
    /\ \E order \in Orders({x \in Txids : txState[x] = next_block_to_process(bp.last)}) :
           bp' = [bp EXCEPT !.pc = "txs", !.queue = order, !.done = <<>>,
                            !.blocks = Append(@, next_block_to_process(bp.last))]
    /\ UNCHANGED <<store, env, ncl, mcl, lastTip, mp, sub, hist>>

\* The inputs whose get_raw_transaction succeeded get their prevout attached
\* (every input of the model's transactions names a previous output).
Enriched(tx, fetched) ==
    [tx EXCEPT !.vin = [i \in DOMAIN tx.vin |->
                           IF i \in fetched THEN tx.vin[i]
                           ELSE [tx.vin[i] EXCEPT !.has_prevout = FALSE]]]

\* One transaction of the block: its inputs enriched, classified as confirmed,
\* and its mempool-seen entry removed. done records the transactions the pass
\* has been through.
BpProcessTx ==
    /\ bp.pc = "txs"
    /\ bp.queue # <<>>
    /\ LET txid == Head(bp.queue)
       IN  \E fetched \in SUBSET DOMAIN TxTable[txid].vin :
           \E order \in ResidualOrders(Enriched(TxTable[txid], fetched)) :
               LET r == QueueAll([nf |-> notification_cf, log |-> written], address_cf, txid,
                                 process_transaction(Enriched(TxTable[txid], fetched), order),
                                 TRUE, now)
               IN  /\ notification_cf' = r.nf
                   /\ written' = r.log
                   /\ mempool_cf' = Delete(mempool_cf, txid)
                   /\ bp' = [bp EXCEPT !.queue = Tail(bp.queue),
                                       !.done = Append(@, txid),
                                       !.rpc_error = @ \/ fetched # DOMAIN TxTable[txid].vin]
    /\ UNCHANGED <<last_processed_block, token_cf, address_cf, env, ncl, mcl, lastTip, mp, sub,
                   presented, lastOp>>

\* The cursor set while transactions of the block are still to be classified.
BpSetCursorEarly ==
    /\ bp.pc = "txs"
    /\ last_processed_block' = next_block_to_process(bp.last)
    /\ bp' = [bp EXCEPT !.pc = "count", !.queue = <<>>, !.done = <<>>]
    /\ UNCHANGED <<token_cf, address_cf, notification_cf, mempool_cf, env, ncl, mcl, lastTip,
                   mp, sub, hist>>

\* process_block returned Ok: set_last_processed_block(next_block_to_process).
BpSetCursor ==
    /\ bp.pc = "txs"
    /\ bp.queue = <<>>
    /\ last_processed_block' = next_block_to_process(bp.last)
    /\ bp' = [bp EXCEPT !.pc = "count", !.done = <<>>]
    /\ UNCHANGED <<token_cf, address_cf, notification_cf, mempool_cf, env, ncl, mcl, lastTip,
                   mp, sub, hist>>

\* At most MaxWriteFailures writes of the cursor fail.
MaxWriteFailures == 1

\* The passes over a block that were not followed by the cursor's advance: the
\* heights process_block classified more than once.
WriteFailures(blocks) == Len(blocks) - Cardinality(Range(blocks))

\* process_block returned Ok and set_last_processed_block fails: the result is
\* dropped (let _ =), the cursor stays and the loop goes on.
BpSetCursorFails ==
    /\ bp.pc = "txs"
    /\ bp.queue = <<>>
    /\ WriteFailures(bp.blocks) < MaxWriteFailures
    /\ bp' = [bp EXCEPT !.pc = "count", !.done = <<>>]
    /\ UNCHANGED <<store, env, ncl, mcl, lastTip, mp, sub, hist>>

BlockProcessor ==
    \/ BpGetBlockCountErr
    \/ BpGetBlockCount
    \/ BpReadCursor
    \/ BpFetchBlockErr
    \/ BpFetchBlock
    \/ BpProcessTx
    \/ BpSetCursor

----------------------------------------------------------------------------
(* Processor::run, mempool_processor thread *)

\* set_mempool_tx_cached
mark_seen(mc, txid, ts) == Put(mc, txid, ts)

is_mempool_tx_cached(mc, txid) == txid \in DOMAIN mc

\* get_raw_mempool fails: sleep 60.
MpGetRawMempoolErr ==
    /\ mp.pc = "poll"
    /\ UNCHANGED vars

\* get_raw_mempool and the filter on the seen cache.
MpGetRawMempool ==
    /\ mp.pc = "poll"
    /\ \E order \in Orders({x \in Txids : /\ txState[x] = InMempool
                                          /\ ~is_mempool_tx_cached(mempool_cf, x)}) :
           mp' = [pc |-> IF order = <<>> THEN "poll" ELSE "txs", new |-> order]
    /\ UNCHANGED <<store, env, ncl, mcl, lastTip, bp, sub, hist>>

MpAfter == [pc |-> IF Tail(mp.new) = <<>> THEN "poll" ELSE "txs", new |-> Tail(mp.new)]

\* The failed fetch marking the txid as seen all the same.
MpProcessTxErrMarksSeen ==
    /\ mp.pc = "txs"
    /\ mempool_cf' = mark_seen(mempool_cf, Head(mp.new), now)
    /\ mp' = MpAfter
    /\ UNCHANGED <<last_processed_block, token_cf, address_cf, notification_cf, env, ncl, mcl,
                   lastTip, bp, sub, hist>>

\* get_raw_transaction_with_prevouts fails: the txid is skipped, not marked.
MpProcessTxErr ==
    /\ mp.pc = "txs"
    /\ mp' = MpAfter
    /\ UNCHANGED <<store, env, ncl, mcl, lastTip, bp, sub, hist>>

MpProcessTx ==
    /\ mp.pc = "txs"
    /\ LET txid == Head(mp.new)
       IN  \E order \in ResidualOrders(TxTable[txid]) :
               LET r == QueueAll([nf |-> notification_cf, log |-> written], address_cf, txid,
                                 process_transaction(TxTable[txid], order), FALSE, now)
               IN  /\ notification_cf' = r.nf
                   /\ written' = r.log
                   /\ mempool_cf' = mark_seen(mempool_cf, txid, now)
    /\ mp' = MpAfter
    /\ UNCHANGED <<last_processed_block, token_cf, address_cf, env, ncl, mcl, lastTip, bp, sub,
                   presented, lastOp>>

MempoolProcessor ==
    \/ MpGetRawMempoolErr
    \/ MpGetRawMempool
    \/ MpProcessTxErr
    \/ MpProcessTx

----------------------------------------------------------------------------
(* Cleaner: one sweep each *)

expired_inclusive(timestamp, ttl, t) == t >= timestamp + ttl

\* if timestamp > expire_timestamp, with expire_timestamp = entry.timestamp + ttl
expired(timestamp, ttl, t) == t > timestamp + ttl

NotificationCleaner ==
    /\ notification_cf' =
           [k \in {x \in DOMAIN notification_cf :
                     ~expired(notification_cf[x].timestamp, NOTIFICATION_TTL, now)}
               |-> notification_cf[k]]
    /\ notification_cf' # notification_cf
    /\ UNCHANGED <<last_processed_block, token_cf, address_cf, mempool_cf, env, procs, hist>>

MempoolTxsCacheCleaner ==
    /\ mempool_cf' = [k \in {x \in DOMAIN mempool_cf :
                               ~expired(mempool_cf[x], MEMPOOL_TTL, now)} |-> mempool_cf[k]]
    /\ mempool_cf' # mempool_cf
    /\ UNCHANGED <<last_processed_block, token_cf, address_cf, notification_cf, env,
                   procs, hist>>

----------------------------------------------------------------------------
(* Cleaner, step by step: each thread takes a snapshot of its partition and *)
(* then examines the snapshot's entries one at a time, reading the clock    *)
(* for each, while the other threads run.                                   *)

Values(f) == {f[k] : k \in DOMAIN f}

\* The thread after the closure ran on entry e; examined and removed record the
\* closure's argument and whether it took the delete branch.
AfterExamining(cleaner, e, gone) ==
    [pc |-> IF cleaner.pending = {e} THEN "idle" ELSE "sweep",
     pending |-> cleaner.pending \ {e},
     examined |-> <<e>>,
     removed |-> gone]

\* STORE.get_notifications()
NcSnapshot ==
    /\ ncl.pc = "idle"
    /\ notification_cf # <<>>
    /\ ncl' = [ncl EXCEPT !.pc = "sweep", !.pending = Values(notification_cf)]
    /\ UNCHANGED <<store, env, lastTip, bp, mp, sub, mcl, hist>>

\* One notification of the snapshot: deleted by (token, id) when its snapshot
\* timestamp has expired.
NcExamine ==
    /\ ncl.pc = "sweep"
    /\ \E n \in ncl.pending :
           /\ ncl' = AfterExamining(ncl, n, expired(n.timestamp, NOTIFICATION_TTL, now))
           /\ notification_cf' =
                  IF expired(n.timestamp, NOTIFICATION_TTL, now)
                  THEN delete_notifications_by_token_and_ids(notification_cf, n.token, {n.id})
                  ELSE notification_cf
    /\ UNCHANGED <<last_processed_block, token_cf, address_cf, mempool_cf, env, lastTip,
                   bp, mp, sub, mcl, hist>>

\* STORE.get_mempool_txs_cached(): pairs <<txid, timestamp>>
McSnapshot ==
    /\ mcl.pc = "idle"
    /\ mempool_cf # <<>>
    /\ mcl' = [mcl EXCEPT !.pc = "sweep",
                           !.pending = {<<k, mempool_cf[k]>> : k \in DOMAIN mempool_cf}]
    /\ UNCHANGED <<store, env, lastTip, bp, mp, sub, ncl, hist>>

\* One entry of the snapshot: removed by txid when its snapshot timestamp has
\* expired.
McExamine ==
    /\ mcl.pc = "sweep"
    /\ \E e \in mcl.pending :
           /\ mcl' = AfterExamining(mcl, e, expired(e[2], MEMPOOL_TTL, now))
           /\ mempool_cf' = IF expired(e[2], MEMPOOL_TTL, now)
                            THEN Delete(mempool_cf, e[1])
                            ELSE mempool_cf
    /\ UNCHANGED <<last_processed_block, token_cf, address_cf, notification_cf, env,
                   lastTip, bp, mp, sub, ncl, hist>>

----------------------------------------------------------------------------
(* A front end that delivers notifications: the matrix bot's                *)
(* process_pending_notifications, for one user                             *)

Event(n) == <<n.token, n.txid, n.txtype, n.amount, n.confirmed>>

Count(e) == IF e \in DOMAIN presented THEN presented[e] ELSE 0

\* api_client.notifications()
SubFetch(t) ==
    /\ sub.pc = "idle"
    /\ LET got == get_notifications_by_token(notification_cf, t)
       IN  /\ got # {}
           /\ sub' = [pc |-> "deliver", token |-> t, pending |-> got]
    /\ UNCHANGED <<store, env, ncl, mcl, lastTip, bp, mp, hist>>

SubAfter(n) ==
    [sub EXCEPT !.pending = sub.pending \ {n},
                !.pc = IF sub.pending = {n} THEN "idle" ELSE "deliver"]

\* room.send fails: the notification stays in the store.
SubSendErr ==
    /\ sub.pc = "deliver"
    /\ \E n \in sub.pending : sub' = SubAfter(n)
    /\ UNCHANGED <<store, env, ncl, mcl, lastTip, bp, mp, hist>>

\* room.send succeeds, then delete_notification_by_id(notification.id).
SubDeliver ==
    /\ sub.pc = "deliver"
    /\ \E n \in sub.pending :
           /\ sub' = SubAfter(n)
           /\ presented' = Put(presented, Event(n),
                               IF Count(Event(n)) < MaxPresented
                               THEN Count(Event(n)) + 1 ELSE Count(Event(n)))
           /\ notification_cf' =
                  delete_notifications_by_token_and_ids(notification_cf, sub.token, {n.id})
    /\ UNCHANGED <<last_processed_block, token_cf, address_cf, mempool_cf, env, ncl, mcl, lastTip,
                   bp, mp, written, lastOp>>

Subscriber ==
    \/ \E t \in Tokens : SubFetch(t)
    \/ SubSendErr
    \/ SubDeliver

----------------------------------------------------------------------------
(* The classifier's emission as one call: queue_notification for a triple *)

EmitTypes == {"in"}

EmitAmounts == {69990000}

SameEvent(nf, token, txid, txtype, amount) ==
    {k \in DOMAIN nf : /\ nf[k].token = token
                       /\ nf[k].txid = txid
                       /\ nf[k].txtype = txtype
                       /\ nf[k].amount = amount}

Emit(address, txid, txtype, amount, confirmed) ==
    LET e == [address |-> address, txtype |-> txtype, value |-> f64_from_json(amount)]
        r == queue_notification([nf |-> notification_cf, log |-> written], address_cf,
                                txid, e, confirmed, now)
        stored == amount_of(e.value)
    IN  /\ address \in DOMAIN address_cf
        /\ notification_cf' = r.nf
        /\ lastOp' = [NoOp EXCEPT
               !.op = "queue_notification", !.address = address,
               !.key = <<txid, txtype, stored, confirmed>>, !.result = "Ok",
               !.existing = \E i \in DOMAIN address_cf[address] :
                   SameEvent(notification_cf, address_cf[address][i], txid, txtype,
                             stored) # {}]
        /\ UNCHANGED <<last_processed_block, token_cf, address_cf, mempool_cf>>

----------------------------------------------------------------------------
(* The classifier on one transaction at a time *)

\* The notifications a classification emits: of the triples handed to
\* queue_notification, those whose address has a record, with their amounts.
RECURSIVE Emitted(_, _)
Emitted(ad, triples) ==
    IF triples = <<>> THEN <<>>
    ELSE LET e == Head(triples)
         IN  (IF e.address # NoAddress /\ e.address \in DOMAIN ad
              THEN <<[address |-> e.address, txtype |-> e.txtype,
                      amount |-> amount_of(e.value)]>>
              ELSE <<>>) \o Emitted(ad, Tail(triples))

\* process_transaction(txid, tx, is_confirmed) on a transaction of the table.
Classify(x, confirmed) ==
    \E order \in ResidualOrders(ClassifyTable[x]) :
        LET triples == process_transaction(ClassifyTable[x], order)
            r == QueueAll([nf |-> notification_cf, log |-> written], address_cf, x,
                          triples, confirmed, now)
        IN  /\ notification_cf' = r.nf
            /\ written' = r.log
            /\ lastOp' = [NoOp EXCEPT !.op = "process_transaction",
                                      !.key = <<x, confirmed>>,
                                      !.emitted = Emitted(address_cf, triples)]
            /\ UNCHANGED <<last_processed_block, token_cf, address_cf, mempool_cf, env,
                           procs, presented>>

\* process_transaction(txid, tx, is_confirmed) on a transaction of SpendTable.
ClassifySpend(x, confirmed) ==
    \E order \in ResidualOrders(SpendTable[x]) :
        LET triples == process_transaction(SpendTable[x], order)
            r == QueueAll([nf |-> notification_cf, log |-> written], address_cf, x,
                          triples, confirmed, now)
        IN  /\ notification_cf' = r.nf
            /\ written' = r.log
            /\ lastOp' = [NoOp EXCEPT !.op = "process_transaction",
                                      !.key = <<x, confirmed>>,
                                      !.emitted = Emitted(address_cf, triples)]
            /\ UNCHANGED <<last_processed_block, token_cf, address_cf, mempool_cf, env,
                           procs, presented>>

\* process_transaction(txid, tx, is_confirmed) on a transaction of TwinTable.
ClassifyTwin(x, confirmed) ==
    \E order \in ResidualOrders(TwinTable[x]) :
        LET triples == process_transaction(TwinTable[x], order)
            r == QueueAll([nf |-> notification_cf, log |-> written], address_cf, x,
                          triples, confirmed, now)
        IN  /\ notification_cf' = r.nf
            /\ written' = r.log
            /\ lastOp' = [NoOp EXCEPT !.op = "process_transaction",
                                      !.key = <<x, confirmed>>,
                                      !.emitted = Emitted(address_cf, triples)]
            /\ UNCHANGED <<last_processed_block, token_cf, address_cf, mempool_cf, env,
                           procs, presented>>

----------------------------------------------------------------------------
(* The Core API over a store whose writes fail. common::db::Store is not part *)
(* of the sources at hand: a write that fails is taken to return Err and to  *)
(* leave the partition as it was.                                            *)

\* create_token when db.put fails: the error is returned, and subscribe wraps
\* every error but AlreadyExist in Error::Db.
SubscribeStoreFails(t) ==
    /\ is_token(t)
    /\ ~token_exist(token_cf, t)
    /\ lastOp' = [Called("subscribe", t, "Db") EXCEPT !.db = "WriteFailed"]
    /\ UNCHANGED store

\* The valid entries of the list for which create_address writes.
WritesOfAdd(ad, token, addresses) ==
    {a \in {addresses[i] : i \in DOMAIN addresses} :
        is_address(a) /\ ~(a \in DOMAIN ad /\ Contains(ad[a], token))}

\* add_addresses when put_serialized fails: create_address drops the result
\* (let _ =) and returns Ok(()), which add_addresses drops in turn; it returns ().
AddAddressesStoreFails(t, list) ==
    /\ WritesOfAdd(address_cf, t, list) # {}
    /\ lastOp' = [Called("add_addresses", t, "Ok") EXCEPT
           !.addresses = list, !.db = "WriteFailed"]
    /\ UNCHANGED store

\* The valid entries of the list for which delete_address_and_notifications
\* writes: a notification to delete, or the token to take out of the record.
WritesOfDelete(st, token, addresses) ==
    {a \in {addresses[i] : i \in DOMAIN addresses} :
        /\ is_address(a)
        /\ \/ a \in DOMAIN st.address_cf /\ Contains(st.address_cf[a], token)
           \/ delete_notifications_by_token_and_address(st.notification_cf, token, a)
                  # st.notification_cf}

\* delete_addresses when delete / put_serialized fail: the store functions drop
\* the results, delete_addresses drops theirs and returns ().
DeleteAddressesStoreFails(t, list) ==
    /\ WritesOfDelete([notification_cf |-> notification_cf, address_cf |-> address_cf],
                      t, list) # {}
    /\ lastOp' = [Called("delete_addresses", t, "Ok") EXCEPT
           !.addresses = list, !.db = "WriteFailed"]
    /\ UNCHANGED store

----------------------------------------------------------------------------
(* Store operations in progress. The store has no transactions and the      *)
(* REST server runs its handlers on several workers, so the reads and       *)
(* writes of one operation interleave with those of another: a request is   *)
(* [op, token, address, pc, tokens], pc the store call it makes next and     *)
(* tokens what its last read returned.                                       *)

\* At most MaxRequests requests are made.
MaxRequests == 2

\* POST /addresses with one address: the User extractor, then add_addresses.
AddRequest(token, address) ==
    [op |-> "add_addresses", token |-> token, address |-> address,
     pc |-> "is_subscribed", tokens |-> <<>>]

\* POST /unsubscribe: the User extractor, then unsubscribe.
UnsubscribeRequest(token) ==
    [op |-> "unsubscribe", token |-> token, address |-> "",
     pc |-> "is_subscribed", tokens |-> <<>>]

\* queue_notification(txid, tx_out, tx_type, confirmed) of a processor, for an
\* output to address.
Emission(address) ==
    [op |-> "queue_notification", token |-> <<>>, address |-> address,
     pc |-> "get_address", tokens |-> <<>>]

ReqStart(request) ==
    /\ Len(requests) < MaxRequests
    /\ requests' = Append(requests, request)
    /\ UNCHANGED <<store, now, tip, txState, node, bitcoin, procs, hist>>

\* User::from_request: 401 unless the token is subscribed.
ReqIsSubscribed(r) ==
    /\ requests[r].pc = "is_subscribed"
    /\ requests' = [requests EXCEPT ![r].pc =
           IF ~token_exist(token_cf, requests[r].token) THEN "unauthorized"
           ELSE IF requests[r].op = "add_addresses" THEN "get"
           ELSE "delete_notifications_by_token"]
    /\ UNCHANGED <<store, now, tip, txState, node, bitcoin, procs, hist>>

\* add_addresses: is_address, then create_address: get_serialized(address);
\* the token is pushed on the tokens read (none when there is no record), and
\* nothing is written when the tokens read hold the token already.
ReqGetAddress(r) ==
    /\ requests[r].pc = "get"
    /\ LET req == requests[r]
           read == IF req.address \in DOMAIN address_cf THEN address_cf[req.address] ELSE <<>>
       IN  requests' = [requests EXCEPT ![r] =
               IF ~is_address(req.address) THEN [req EXCEPT !.pc = "returned"]
               ELSE IF Contains(read, req.token) THEN [req EXCEPT !.pc = "returned"]
               ELSE [req EXCEPT !.pc = "put", !.tokens = Append(read, req.token)]]
    /\ UNCHANGED <<store, now, tip, txState, node, bitcoin, procs, hist>>

\* create_address: put_serialized(address, Address { tokens }).
ReqPutAddress(r) ==
    /\ requests[r].pc = "put"
    /\ address_cf' = Put(address_cf, requests[r].address, requests[r].tokens)
    /\ requests' = [requests EXCEPT ![r].pc = "returned"]
    /\ UNCHANGED <<last_processed_block, token_cf, notification_cf, mempool_cf, now, tip,
                   txState, node, bitcoin, procs, hist>>

\* delete_token, first call: delete_notifications_by_token.
ReqDeleteNotifications(r) ==
    /\ requests[r].pc = "delete_notifications_by_token"
    /\ notification_cf' = delete_notifications_by_token(notification_cf, requests[r].token)
    /\ requests' = [requests EXCEPT ![r].pc = "delete_addresses_by_token"]
    /\ UNCHANGED <<last_processed_block, token_cf, address_cf, mempool_cf, now, tip,
                   txState, node, bitcoin, procs, hist>>

\* delete_token, second call: delete_addresses_by_token.
ReqDeleteAddresses(r) ==
    /\ requests[r].pc = "delete_addresses_by_token"
    /\ address_cf' = delete_addresses_by_token(address_cf, requests[r].token)
    /\ requests' = [requests EXCEPT ![r].pc = "delete"]
    /\ UNCHANGED <<last_processed_block, token_cf, notification_cf, mempool_cf, now, tip,
                   txState, node, bitcoin, procs, hist>>

\* delete_token, last call: db.delete(cf, token).
ReqDeleteToken(r) ==
    /\ requests[r].pc = "delete"
    /\ token_cf' = token_cf \ {requests[r].token}
    /\ requests' = [requests EXCEPT ![r].pc = "returned"]
    /\ UNCHANGED <<last_processed_block, address_cf, notification_cf, mempool_cf, now, tip,
                   txState, node, bitcoin, procs, hist>>

\* queue_notification: STORE.get_address(address); nothing more when there is
\* no record.
ReqEmitGetAddress(r) ==
    /\ requests[r].pc = "get_address"
    /\ requests' = [requests EXCEPT ![r] =
           IF requests[r].address \in DOMAIN address_cf
           THEN [@ EXCEPT !.pc = "create_notification",
                          !.tokens = address_cf[requests[r].address]]
           ELSE [@ EXCEPT !.pc = "returned"]]
    /\ UNCHANGED <<store, now, tip, txState, node, bitcoin, procs, hist>>

\* queue_notification: create_notification for the next of the tokens read.
ReqEmitCreateNotification(r, txid, txtype, amount, confirmed) ==
    /\ requests[r].pc = "create_notification"
    /\ LET req == requests[r]
       IN  /\ notification_cf' = create_notification(notification_cf, Head(req.tokens),
                                     req.address, txid, txtype, amount, confirmed, now)
           /\ requests' = [requests EXCEPT ![r] =
                  [req EXCEPT !.tokens = Tail(req.tokens),
                              !.pc = IF Tail(req.tokens) = <<>> THEN "returned"
                                     ELSE "create_notification"]]
    /\ UNCHANGED <<last_processed_block, token_cf, address_cf, mempool_cf, now, tip,
                   txState, node, bitcoin, procs, hist>>

----------------------------------------------------------------------------
(* Specifications *)

IdleBp == [pc |-> "count", block_height |-> 0, last |-> 0, queue |-> <<>>, done |-> <<>>,
           rpc_error |-> FALSE, initial |-> NONE, blocks |-> <<>>]

IdleMp == [pc |-> "poll", new |-> <<>>]

IdleSub == [pc |-> "idle", token |-> <<>>, pending |-> {}]

IdleCleaner == [pc |-> "idle", pending |-> {}, examined |-> <<>>, removed |-> FALSE]

\* A fresh database, the node synced at height Tip0, the preflight passed,
\* every thread at its loop's head, no request in progress.
Init ==
    /\ last_processed_block = NONE
    /\ token_cf = {}
    /\ address_cf = <<>>
    /\ notification_cf = <<>>
    /\ mempool_cf = <<>>
    /\ now = 0
    /\ tip = Tip0
    /\ txState = [x \in Txids |-> NotSent]
    /\ node = SyncedNode
    /\ bitcoin = Started
    /\ requests = <<>>
    /\ lastTip = NONE
    /\ bp = IdleBp
    /\ mp = IdleMp
    /\ sub = IdleSub
    /\ ncl = IdleCleaner
    /\ mcl = IdleCleaner
    /\ presented = <<>>
    /\ written = {}
    /\ lastOp = NoOp

\* The store under calls of the Core API and emissions of the classifier, one
\* call at a time.
Next ==
    \/ /\ \E t \in Tokens \cup {TShort} : Subscribe(t)
       /\ UNCHANGED <<env, procs, presented, written>>
    \/ /\ \E t \in Tokens : Unsubscribe(t)
       /\ UNCHANGED <<env, procs, presented, written>>
    \/ /\ \E t \in Tokens, list \in AddressLists : AddAddresses(t, list)
       /\ UNCHANGED <<env, procs, presented, written>>
    \/ /\ \E t \in Tokens, list \in AddressLists : DeleteAddresses(t, list)
       /\ UNCHANGED <<env, procs, presented, written>>
    \/ /\ \E t \in Tokens, a \in ValidAddresses : DeleteAddress(t, a)
       /\ UNCHANGED <<env, procs, presented, written>>
    \/ /\ \E t \in Tokens, id \in DOMAIN notification_cf : DeleteNotificationById(t, id)
       /\ UNCHANGED <<env, procs, presented, written>>
    \/ /\ \E t \in Tokens : DeleteAllNotifications(t)
       /\ UNCHANGED <<env, procs, presented, written>>
    \/ /\ \E t \in Tokens : Notifications(t)
       /\ UNCHANGED <<env, procs, presented, written>>
    \/ /\ \E a \in ValidAddresses, x \in Txids, ty \in EmitTypes, am \in EmitAmounts,
             c \in BOOLEAN : Emit(a, x, ty, am, c)
       /\ UNCHANGED <<env, procs, presented, written>>

Spec == Init /\ [][Next]_vars

\* The chain watchers: both processors, the chain growing under them, a front
\* end that registers addresses for T1 and one that delivers notifications.
NextChain ==
    \/ BlockProcessor
    \/ MempoolProcessor
    \/ Subscriber
    \/ \E x \in Txids : Broadcast(x)
    \/ \E S \in SUBSET Txids : Mine(S)
    \/ /\ \E a \in {"A", "B"} : AddAddresses(T1, <<a>>)
       /\ UNCHANGED <<env, procs, presented, written>>

SpecChain == Init /\ [][NextChain]_vars

\* The block processor alone under a growing chain, its calls to the node and
\* its writes of the cursor failing or not; the thread keeps running.
BlockProcessorWithFailures == BlockProcessor \/ BpSetCursorFails

NextProgress ==
    \/ BlockProcessor
    \/ BpSetCursorFails
    \/ \E x \in Txids : Broadcast(x)
    \/ \E S \in SUBSET Txids : Mine(S)
    \/ /\ \E a \in {"A", "B"} : AddAddresses(T1, <<a>>)
       /\ UNCHANGED <<env, procs, presented, written>>

SpecProgress == Init /\ [][NextProgress]_vars /\ WF_vars(BlockProcessorWithFailures)

\* Retention: the mempool processor, both cleaners and the clock, with the same
\* two front ends, at a fixed chain height.
NextRetention ==
    \/ MempoolProcessor
    \/ NotificationCleaner
    \/ MempoolTxsCacheCleaner
    \/ Subscriber
    \/ \E x \in Txids : Broadcast(x)
    \/ \E d \in {1, MEMPOOL_TTL, NOTIFICATION_TTL} : Tick(d)
    \/ /\ \E a \in {"A", "B"} : AddAddresses(T1, <<a>>)
       /\ UNCHANGED <<env, procs, presented, written>>

SpecRetention == Init /\ [][NextRetention]_vars

----------------------------------------------------------------------------
(* Token strings: the store under subscribe calls with strings around the   *)
(* length limit and with characters in and out of the hex digits           *)

\* The cleaners step by step, beside the mempool processor and the clock.
NextSweep ==
    \/ MempoolProcessor
    \/ NcSnapshot
    \/ NcExamine
    \/ McSnapshot
    \/ McExamine
    \/ \E x \in Txids : Broadcast(x)
    \/ \E d \in {1, MEMPOOL_TTL, NOTIFICATION_TTL} : Tick(d)
    \/ /\ \E a \in ValidAddresses : AddAddresses(T1, <<a>>)
       /\ UNCHANGED <<env, procs, presented, written>>

SpecSweep == Init /\ [][NextSweep]_vars

\* The classifier alone: transactions classified one at a time while a front
\* end registers addresses for T1.
NextClassify ==
    \/ \E x \in DOMAIN ClassifyTable, c \in BOOLEAN : Classify(x, c)
    \/ /\ \E a \in ValidAddresses : AddAddresses(T1, <<a>>)
       /\ UNCHANGED <<env, procs, presented, written>>

SpecClassify == Init /\ [][NextClassify]_vars

\* The classifier on the spending transactions, while a front end registers
\* addresses for T1.
NextSpend ==
    \/ \E x \in DOMAIN SpendTable, c \in BOOLEAN : ClassifySpend(x, c)
    \/ /\ \E a \in ValidAddresses : AddAddresses(T1, <<a>>)
       /\ UNCHANGED <<env, procs, presented, written>>

SpecSpend == Init /\ [][NextSpend]_vars

\* The key lists handed to Multisig::new: three keys in every order, two and
\* one, none, and lists with a key of another prefix or a string that is not
\* an extended public key.
KeyLists ==
    Orders({"xpubK1", "xpubK2", "xpubK3"})
        \cup {<<"xpubK1", "xpubK2">>, <<"xpubK2", "xpubK1">>, <<"xpubK3">>, <<>>,
              <<"ZpubK1", "ZpubK1">>, <<"xpubK1", "ypubK1">>, <<"xpubK1", "xpubBadCheck">>,
              <<"xpubBadPoint", "xpubK1">>, <<"address">>, <<"WAJ3Feu">>,
              <<"xpubK1", "ab">>}

\* Multisig::new and derive on script types, signature counts, key lists and
\* paths. Nothing is stored and no call depends on another: a behaviour makes
\* one call.
NextMultisig ==
    /\ lastOp = NoOp
    /\ \E script_type \in ScriptTypes \cup {"p2tr"}, required_signatures \in 0..3,
          public_keys \in KeyLists, index \in {U32(0, 0), U32(0, 1), U32(0, 3)},
          is_change \in BOOLEAN :
           MultisigDerive(script_type, required_signatures, public_keys, index, is_change)
    /\ UNCHANGED <<env, procs, presented, written>>

SpecMultisig == Init /\ [][NextMultisig]_vars

\* The store holds at most MaxWatched addresses.
MaxWatched == 2

\* The calls of the front end, as <<public_key, is_change>>: the receive chain
\* of every key string, and the change chain of xpubK1.
SinglesigCalls ==
    {<<key, FALSE>> : key \in DOMAIN KeyStrings \ {"xpubK2", "xpubK3"}}
        \cup {<<"xpubK1", TRUE>>}

\* A front end that adds and deletes the addresses of single-signature keys
\* for T1.
NextSinglesig ==
    \/ /\ \E call \in SinglesigCalls, r \in IndexRanges :
              AddAddressesFromSinglesig(T1, call[1], r[1], r[2], call[2])
       /\ Cardinality(DOMAIN address_cf') <= MaxWatched
       /\ UNCHANGED <<env, procs, presented, written>>
    \/ /\ \E call \in SinglesigCalls, r \in IndexRanges :
              DeleteAddressesFromSinglesig(T1, call[1], r[1], r[2], call[2])
       /\ UNCHANGED <<env, procs, presented, written>>

SpecSinglesig == Init /\ [][NextSinglesig]_vars

\* The classifier on two transactions while the front ends of two tokens
\* register addresses.
NextFanOut ==
    \/ \E x \in {"s4", "two"}, c \in BOOLEAN : Classify(x, c)
    \/ /\ \E t \in Tokens, a \in ValidAddresses : AddAddresses(t, <<a>>)
       /\ UNCHANGED <<env, procs, presented, written>>

SpecFanOut == Init /\ [][NextFanOut]_vars

\* The Core API's mutations over a store whose writes may fail, with the
\* classifier's emissions beside them.
NextFault ==
    \/ /\ \E t \in Tokens \cup {TShort} : Subscribe(t)
       /\ UNCHANGED <<env, procs, presented, written>>
    \/ /\ \E t \in Tokens : SubscribeStoreFails(t)
       /\ UNCHANGED <<env, procs, presented, written>>
    \/ /\ \E t \in Tokens : Unsubscribe(t)
       /\ UNCHANGED <<env, procs, presented, written>>
    \/ /\ \E t \in Tokens, list \in AddressLists : AddAddresses(t, list)
       /\ UNCHANGED <<env, procs, presented, written>>
    \/ /\ \E t \in Tokens, list \in AddressLists : AddAddressesStoreFails(t, list)
       /\ UNCHANGED <<env, procs, presented, written>>
    \/ /\ \E t \in Tokens, list \in AddressLists : DeleteAddresses(t, list)
       /\ UNCHANGED <<env, procs, presented, written>>
    \/ /\ \E t \in Tokens, list \in AddressLists : DeleteAddressesStoreFails(t, list)
       /\ UNCHANGED <<env, procs, presented, written>>
    \/ /\ \E a \in ValidAddresses, x \in Txids, ty \in EmitTypes, am \in EmitAmounts,
             c \in BOOLEAN : Emit(a, x, ty, am, c)
       /\ UNCHANGED <<env, procs, presented, written>>

SpecFault == Init /\ [][NextFault]_vars

\* Every writer of the store at once: both processors, both cleaners, the
\* Core API called for T1, the chain and the clock. The days pass once the
\* chain has reached its last height.
NextFrame ==
    \/ BlockProcessor
    \/ MempoolProcessor
    \/ NotificationCleaner
    \/ MempoolTxsCacheCleaner
    \/ \E x \in Txids : Broadcast(x)
    \/ \E S \in SUBSET Txids : Mine(S)
    \/ /\ ~TipOk
       /\ \E d \in {MEMPOOL_TTL, NOTIFICATION_TTL} : Tick(d)
    \/ /\ Unsubscribe(T1)
       /\ UNCHANGED <<env, procs, presented, written>>
    \/ /\ AddAddresses(T1, <<"B">>)
       /\ UNCHANGED <<env, procs, presented, written>>

SpecFrame == Init /\ [][NextFrame]_vars

\* The node in any state when the service starts.
InitPreflight ==
    /\ last_processed_block = NONE
    /\ token_cf = {}
    /\ address_cf = <<>>
    /\ notification_cf = <<>>
    /\ mempool_cf = <<>>
    /\ now = 0
    /\ tip = Tip0
    /\ txState = [x \in Txids |-> NotSent]
    /\ node \in NodeStates
    /\ bitcoin = Preflight
    /\ requests = <<>>
    /\ lastTip = NONE
    /\ bp = IdleBp
    /\ mp = IdleMp
    /\ sub = IdleSub
    /\ ncl = IdleCleaner
    /\ mcl = IdleCleaner
    /\ presented = <<>>
    /\ written = {}
    /\ lastOp = NoOp

\* The "bitcoin" thread from its start, over a node whose state changes, and
\* the two processors once Processor::run has spawned them.
NextPreflight ==
    \/ NodeChanges
    \/ PfRpcErr
    \/ PfGetBlockchainInfo
    \/ PfGetNetworkInfo
    \/ PfGetPeerInfo
    \/ PfGetIndexInfo
    \/ PfChecks
    \/ bitcoin.pc = "Processor::run" /\ BlockProcessor
    \/ bitcoin.pc = "Processor::run" /\ MempoolProcessor
    \/ \E x \in Txids : Broadcast(x)

SpecPreflight == InitPreflight /\ [][NextPreflight]_vars

\* The classifier on the transactions of TwinTable, while a front end
\* registers addresses for T1.
NextTwin ==
    \/ \E x \in DOMAIN TwinTable, c \in BOOLEAN : ClassifyTwin(x, c)
    \/ /\ \E a \in ValidAddresses : AddAddresses(T1, <<a>>)
       /\ UNCHANGED <<env, procs, presented, written>>

SpecTwin == Init /\ [][NextTwin]_vars

\* Two workers of the REST server serving POST /addresses for subscribed
\* tokens, while tokens get subscribed.
NextRace ==
    \/ /\ \E t \in Tokens : Subscribe(t)
       /\ UNCHANGED <<env, procs, presented, written>>
    \/ \E t \in Tokens, a \in ValidAddresses \cup InvalidAddresses : ReqStart(AddRequest(t, a))
    \/ \E r \in DOMAIN requests : ReqIsSubscribed(r)
    \/ \E r \in DOMAIN requests : ReqGetAddress(r)
    \/ \E r \in DOMAIN requests : ReqPutAddress(r)

SpecRace == Init /\ [][NextRace]_vars

\* Subscribed front ends adding an address and unsubscribing, request by
\* request, beside a processor's queue_notification for an output of 0.7 BTC to
\* a watched address. A front end calls add_addresses in one piece too, for a token
\* that is subscribed at the call.
NextIntegrity ==
    \/ (\E t \in Tokens : Subscribe(t)) /\ UNCHANGED <<env, procs, presented, written>>
    \/ /\ \E t \in token_cf : AddAddresses(t, <<"A">>)
       /\ UNCHANGED <<env, procs, presented, written>>
    \/ \E t \in Tokens : ReqStart(AddRequest(t, "A"))
    \/ \E t \in Tokens : ReqStart(UnsubscribeRequest(t))
    \/ ReqStart(Emission("A"))
    \/ \E r \in DOMAIN requests : ReqIsSubscribed(r)
    \/ \E r \in DOMAIN requests : ReqGetAddress(r)
    \/ \E r \in DOMAIN requests : ReqPutAddress(r)
    \/ \E r \in DOMAIN requests : ReqDeleteNotifications(r)
    \/ \E r \in DOMAIN requests : ReqDeleteAddresses(r)
    \/ \E r \in DOMAIN requests : ReqDeleteToken(r)
    \/ \E r \in DOMAIN requests : ReqEmitGetAddress(r)
    \/ \E r \in DOMAIN requests :
           ReqEmitCreateNotification(r, "x1", "in", 70000000, TRUE)

SpecIntegrity == Init /\ [][NextIntegrity]_vars

TokenAlphabet == {"0", "a", "F", "g", ":", "é"}

TokenRunLengths == {49, 50, 64}

TokenSplits == {<<1, 48>>, <<1, 49>>, <<49, 1>>, <<25, 25>>}

TokenInputs ==
    {<<Run(c, n)>> : c \in TokenAlphabet, n \in TokenRunLengths}
        \cup {<<Run(cs[1], ns[1]), Run(cs[2], ns[2])>> :
                 cs \in {x \in TokenAlphabet \X TokenAlphabet : x[1] # x[2]},
                 ns \in TokenSplits}
        \cup {<<Run(cs[1], 24), Run(cs[2], 1), Run(cs[1], 25)>> :
                 cs \in {x \in TokenAlphabet \X TokenAlphabet :
                            x[1] \in CHARS /\ x[2] \notin CHARS}}

MaxStoredTokens == 1

NextToken ==
    \/ /\ \E s \in TokenInputs : Subscribe(s)
       /\ Cardinality(token_cf') <= MaxStoredTokens
       /\ UNCHANGED <<env, procs, presented, written>>
    \/ /\ \E s \in token_cf : Unsubscribe(s)
       /\ UNCHANGED <<env, procs, presented, written>>

SpecToken == Init /\ [][NextToken]_vars

----------------------------------------------------------------------------
(* Properties of the store under Core API calls *)

HexDigits == {"0", "1", "2", "3", "4", "5", "6", "7", "8", "9",
              "a", "b", "c", "d", "e", "f", "A", "B", "C", "D", "E", "F"}

\* ^[0-9A-Fa-f]{50,}$
WellFormed(s) == CharLen(s) >= 50 /\ CharsOf(s) \subseteq HexDigits

\* C3: after delete_token(t) no notification of t remains, no address record
\* contains t, and no address record is empty.
C3_DeleteTokenCascade ==
    lastOp.op = "unsubscribe" =>
        /\ \A k \in DOMAIN notification_cf : notification_cf[k].token # lastOp.token
        /\ \A a \in DOMAIN address_cf : ~Contains(address_cf[a], lastOp.token)
        /\ \A a \in DOMAIN address_cf : address_cf[a] # <<>>

\* delete_token(t) has returned for a token that owned a notification, was the
\* only token of one record and one of several of another; the other token's
\* record and notification are still there.
C3_Witness ==
    /\ lastOp.op = "unsubscribe"
    /\ lastOp.existing
    /\ DOMAIN address_cf # {}
    /\ DOMAIN notification_cf # {}

\* C4: a create_notification for a (token, txid, txtype, amount) that has an
\* entry writes that entry's key again: afterwards the partition holds exactly
\* one entry for it, and the number of entries grew only by the tokens that had
\* none.
C4_NotificationIdempotent ==
    [][lastOp'.op = "queue_notification" =>
        LET a == lastOp'.address
            txid == lastOp'.key[1]
            ty == lastOp'.key[2]
            am == lastOp'.key[3]
            fresh == {i \in DOMAIN address_cf[a] :
                        SameEvent(notification_cf, address_cf[a][i], txid, ty, am) = {}}
        IN  /\ \A i \in DOMAIN address_cf[a] :
                   LET before == SameEvent(notification_cf, address_cf[a][i], txid, ty, am)
                       after == SameEvent(notification_cf', address_cf[a][i], txid, ty, am)
                   IN  /\ Cardinality(after) = 1
                       /\ before # {} => after = before
            /\ Cardinality(DOMAIN notification_cf') =
                   Cardinality(DOMAIN notification_cf) + Cardinality(fresh)
    ]_vars

\* The second call for the same event has returned and the partition holds one
\* entry.
C4_Witness ==
    /\ lastOp.op = "queue_notification"
    /\ lastOp.existing
    /\ Cardinality(DOMAIN notification_cf) = 1

\* C8: no address record has an empty token set.
C8_NoEmptyAddressRecord == \A a \in DOMAIN address_cf : address_cf[a] # <<>>

\* delete_address has removed the last token of a record, and the record is gone.
C8_Witness ==
    /\ lastOp.op = "delete_address"
    /\ lastOp.existing
    /\ lastOp.address \notin DOMAIN address_cf

\* C9 as stated: create_token(s) succeeds iff s is hex of length >= 50.
C9_AsStated ==
    lastOp.op = "subscribe" => (lastOp.db = "Ok" <=> WellFormed(lastOp.token))

\* C9: create_token(s) fails with InvalidValue iff s is not hex of length >= 50,
\* with AlreadyExist iff s is well formed and already in the token partition,
\* and succeeds iff s is well formed and not yet in it.
C9_TokenValidity ==
    lastOp.op = "subscribe" =>
        /\ lastOp.db = "InvalidValue" <=> ~WellFormed(lastOp.token)
        /\ lastOp.db = "AlreadyExist" <=> WellFormed(lastOp.token) /\ lastOp.existing
        /\ lastOp.db = "Ok" <=> WellFormed(lastOp.token) /\ ~lastOp.existing
        /\ lastOp.db = "Ok" => lastOp.token \in token_cf

\* create_token has accepted a string of exactly 50 hex characters of two kinds.
C9_Witness ==
    /\ lastOp.op = "subscribe"
    /\ lastOp.db = "Ok"
    /\ CharLen(lastOp.token) = 50
    /\ Len(lastOp.token) = 2

\* C10: subscribe for a well-formed token returns success whether or not the
\* token is there; afterwards the token is in the partition, and a call that
\* finds it there changes nothing in the store.
C10_SubscribeIdempotent ==
    [][lastOp'.op = "subscribe" /\ WellFormed(lastOp'.token) =>
        /\ lastOp'.result = "Ok"
        /\ lastOp'.token \in token_cf'
        /\ lastOp'.token \in token_cf => UNCHANGED store
    ]_vars

\* subscribe has returned success for a token that was already subscribed.
C10_Witness ==
    /\ lastOp.op = "subscribe"
    /\ lastOp.existing
    /\ lastOp.result = "Ok"
    /\ lastOp.token \in token_cf

----------------------------------------------------------------------------
(* Properties of the chain watchers *)

\* The step that ends a successful pass of the block processor.
PassSucceeds == bp.pc = "txs" /\ bp.queue = <<>> /\ bp'.pc = "count"

\* C1: once stored, the cursor changes only at the end of a successful pass of
\* the block processor, and then from L to exactly L + 1: it never decreases
\* and never skips a height.
C1_CursorMonotone ==
    [][/\ last_processed_block # NONE =>
              last_processed_block' \in {last_processed_block, last_processed_block + 1}
       /\ last_processed_block # NONE /\ last_processed_block' # last_processed_block =>
              PassSucceeds
       /\ PassSucceeds =>
              /\ last_processed_block # NONE
              /\ last_processed_block' = last_processed_block + 1
    ]_vars

\* A pass has just moved the cursor from bp.last to bp.last + 1.
C1_Witness ==
    /\ bp.pc = "count"
    /\ last_processed_block # NONE
    /\ last_processed_block = bp.last + 1

\* C2: once the cursor is stored it is at most the height get_block_count
\* returned last, minus OFFSET.
C2_ConfirmationOffset ==
    last_processed_block # NONE => last_processed_block <= lastTip - OFFSET

\* A pass has moved the cursor to exactly five below the height read last, and
\* the chain has grown since.
C2_Witness ==
    /\ bp.pc = "count"
    /\ last_processed_block = bp.last + 1
    /\ last_processed_block = lastTip - OFFSET
    /\ tip > lastTip

SameTuple(w1, w2) ==
    /\ w1.token = w2.token
    /\ w1.txid = w2.txid
    /\ w1.txtype = w2.txtype
    /\ w1.amount = w2.amount

\* C5 as stated: no event (token, txid, direction, amount, stage) is delivered
\* to the subscriber more than once.
C5_AtMostOncePerEvent == \A e \in DOMAIN presented : presented[e] <= 1

\* C6 as stated: the pending and the confirmed notification of one
\* (token, txid, direction, amount) are written under distinct ids.
C6_AsStated ==
    \A w1, w2 \in written :
        SameTuple(w1, w2) /\ ~w1.confirmed /\ w2.confirmed => w1.id # w2.id

\* C6: the pending and the confirmed notification of one (token, txid,
\* direction, amount) are written under the same id; the partition never holds
\* two entries for it, and the confirmed write replaces the pending entry when
\* that is still stored.
C6_PendingAndConfirmedShareId ==
    /\ [](/\ \A w1, w2 \in written : SameTuple(w1, w2) => w1.id = w2.id
          /\ \A k1, k2 \in DOMAIN notification_cf :
                 SameTuple(notification_cf[k1], notification_cf[k2]) => k1 = k2)
    /\ [][\A k \in DOMAIN notification_cf :
              (/\ ~notification_cf[k].confirmed
               /\ \E w \in written' \ written :
                      w.confirmed /\ SameTuple(w, notification_cf[k]))
                  => /\ k \in DOMAIN notification_cf'
                     /\ notification_cf'[k].confirmed
                     /\ Cardinality(DOMAIN notification_cf') >=
                            Cardinality(DOMAIN notification_cf)
       ]_vars

\* A transaction was classified in the mempool and then in its block: both
\* stages were written, and one confirmed entry is stored under the id the
\* pending one had.
C6_Witness ==
    \E w1, w2 \in written :
        /\ SameTuple(w1, w2)
        /\ ~w1.confirmed
        /\ w2.confirmed
        /\ w1.id \in DOMAIN notification_cf
        /\ notification_cf[w1.id].confirmed
        /\ txState["x1"] > 0
        /\ last_processed_block >= txState["x1"]

\* C7 as stated: while an entry exists none of its fields changes.
C7_AsStated ==
    [][\A k \in DOMAIN notification_cf \cap DOMAIN notification_cf' :
           notification_cf'[k] = notification_cf[k]]_vars

\* C7: while an entry exists its id, token, txid, txtype and amount do not
\* change (its address, confirmed and timestamp are those of the last write).
C7_KeyFieldsImmutable ==
    [][\A k \in DOMAIN notification_cf \cap DOMAIN notification_cf' :
           /\ notification_cf'[k].id = notification_cf[k].id
           /\ notification_cf'[k].id = k
           /\ SameTuple(notification_cf'[k], notification_cf[k])]_vars

\* An entry written as pending was overwritten in place: nothing was ever
\* delivered (so nothing was deleted), the pending write is in the history and
\* the entry now reads confirmed.
C7_Witness ==
    /\ presented = <<>>
    /\ \E k \in DOMAIN notification_cf :
           /\ notification_cf[k].confirmed
           /\ \E w \in written : w.id = k /\ ~w.confirmed

----------------------------------------------------------------------------
(* Properties of the cleaners *)

\* The entry a cleaner step has just examined.
Examined(cleaner, after) == cleaner.pending \ after.pending

Examines(cleaner, after) == cleaner.pc = "sweep" /\ after.pending # cleaner.pending

\* C11: a step of a sweep removes the snapshot entry it examines when that
\* entry's timestamp + retention < now and removes nothing else; when the
\* entry's timestamp + retention >= now the step leaves the partition as it is.
\* A sweep ends only when every entry of its snapshot has been examined.
C11_SweepRemovesExpiredOnly ==
    [][/\ Examines(ncl, ncl') =>
              \A n \in Examined(ncl, ncl') :
                  IF n.timestamp + NOTIFICATION_TTL < now
                  THEN /\ n.id \notin DOMAIN notification_cf'
                       /\ \A k \in DOMAIN notification_cf \ {n.id} :
                              /\ k \in DOMAIN notification_cf'
                              /\ notification_cf'[k] = notification_cf[k]
                  ELSE notification_cf' = notification_cf
       /\ Examines(mcl, mcl') =>
              \A e \in Examined(mcl, mcl') :
                  IF e[2] + MEMPOOL_TTL < now
                  THEN /\ e[1] \notin DOMAIN mempool_cf'
                       /\ \A k \in DOMAIN mempool_cf \ {e[1]} :
                              /\ k \in DOMAIN mempool_cf'
                              /\ mempool_cf'[k] = mempool_cf[k]
                  ELSE mempool_cf' = mempool_cf
       /\ ncl'.pc = "idle" => ncl'.pending = {}
       /\ mcl'.pc = "idle" => mcl'.pending = {}
    ]_vars

\* At time t + 30 days the sweeps have examined a notification and a
\* mempool-seen entry both written at t: the notification, exactly at its
\* retention, was kept and is still stored; the mempool-seen entry, past its
\* own, was removed.
C11_Witness ==
    /\ ncl.examined # <<>>
    /\ ~ncl.removed
    /\ ncl.examined[1].timestamp + NOTIFICATION_TTL = now
    /\ ncl.examined[1].id \in DOMAIN notification_cf
    /\ mcl.examined # <<>>
    /\ mcl.removed
    /\ mcl.examined[1][2] + MEMPOOL_TTL < now
    /\ mcl.examined[1][1] \notin DOMAIN mempool_cf

----------------------------------------------------------------------------
(* Properties of the classifier *)

Classified(x) == lastOp.op = "process_transaction" /\ lastOp.key[1] = x

Watched(addresses) == addresses \subseteq DOMAIN address_cf

Triple(address, txtype, amount) ==
    [address |-> address, txtype |-> txtype, amount |-> amount]

\* C12 as stated: with A and B watched, classifying s4 emits exactly
\* (A, "out", 70_010_000) and (B, "in", 69_990_000).
C12_AsStated ==
    Classified("s4") /\ Watched({"A", "B"})
        => /\ Len(lastOp.emitted) = 2
           /\ Range(lastOp.emitted) = {Triple("A", "out", 70010000),
                                       Triple("B", "in", 69990000)}

\* C12: with A and B watched, classifying s4 emits exactly (A, "out", 70_000_000),
\* the input of 100,000,000 sat less the 30,000,000 sat that came back, and
\* (B, "in", 69_990_000).
C12_ScenarioS4 ==
    Classified("s4") /\ Watched({"A", "B"})
        => /\ Len(lastOp.emitted) = 2
           /\ Range(lastOp.emitted) = {Triple("A", "out", 70000000),
                                       Triple("B", "in", 69990000)}

C12_Witness ==
    /\ Classified("s4")
    /\ Watched({"A", "B"})
    /\ \E k \in DOMAIN notification_cf :
           notification_cf[k].txid = "s4" /\ notification_cf[k].address = "A"
           /\ notification_cf[k].txtype = "out"

RECURSIVE SumSat(_)
SumSat(seq) == IF seq = <<>> THEN 0 ELSE Head(seq).sat + SumSat(Tail(seq))

\* The fee of a transaction: what its inputs carry more than its outputs.
Fee(tx) == SumSat(tx.vin) - SumSat(tx.vout)

AddressesOf(tx) ==
    {tx.vin[i].address : i \in DOMAIN tx.vin} \cup {tx.vout[i].address : i \in DOMAIN tx.vout}

RECURSIVE SumAmounts(_, _)
SumAmounts(emitted, txtype) ==
    IF emitted = <<>> THEN 0
    ELSE (IF Head(emitted).txtype = txtype THEN Head(emitted).amount ELSE 0)
         + SumAmounts(Tail(emitted), txtype)

\* C13: a transaction with fee >= 0 whose input and output addresses are all
\* watched emits notifications with sum("in") - sum("out") = -fee.
C13_Conservation ==
    \A x \in DOMAIN ClassifyTable :
        Classified(x) /\ Fee(ClassifyTable[x]) >= 0 /\ Watched(AddressesOf(ClassifyTable[x]))
            => SumAmounts(lastOp.emitted, "in") - SumAmounts(lastOp.emitted, "out")
                   = -Fee(ClassifyTable[x])

----------------------------------------------------------------------------
(* Errors of the node in the block processor *)

\* C14: an RPC error in an iteration of the block processor (get_block_count,
\* get_block_hash, get_block, or a get_raw_transaction made to enrich an input)
\* aborts the iteration, which restarts at its head, and the cursor does not
\* advance in an iteration that met one.
C14_RpcErrorAbortsIteration ==
    [][/\ ~bp.rpc_error /\ bp'.rpc_error
           => bp'.pc = "count" /\ last_processed_block' = last_processed_block
       /\ bp.rpc_error /\ bp.pc # "count"
           => last_processed_block' = last_processed_block]_vars

----------------------------------------------------------------------------
(* Properties of the Core API *)

\* The addresses the last call unwatched for its token: the valid entries of
\* delete_addresses (delete_addresses_from_singlesig hands it the derived
\* list), the derived address of delete_addresses_from_multisig.
Unwatched ==
    IF lastOp.op = "delete_addresses"
    THEN {a \in Range(lastOp.addresses) : is_address(a)}
    ELSE IF lastOp.op = "delete_address" THEN {lastOp.address}
    ELSE {}

\* C15: after a Core API call unwatched address a for token t, t is not in a's
\* token list and no notification of t for a remains.
C15_UnwatchRemovesNotifications ==
    \A a \in Unwatched :
        /\ a \in DOMAIN address_cf => ~Contains(address_cf[a], lastOp.token)
        /\ delete_notifications_by_token_and_address(notification_cf, lastOp.token, a)
               = notification_cf

\* The same for the calls that go through delete_addresses.
C15_DeleteAddressesCombined == lastOp.op = "delete_addresses" => C15_UnwatchRemovesNotifications

ScopedOps == {"delete_notification_by_id", "delete_all_notifications", "delete_addresses",
              "unsubscribe"}

\* C16: delete_notification_by_id, delete_all_notifications, delete_addresses and
\* unsubscribe for token t leave every notification of another token as it was
\* and every other token in every address record it was in; notifications() for
\* t returns exactly the stored notifications whose token is t.
C16_TokenScoping ==
    [][/\ lastOp'.op \in ScopedOps
           => /\ \A k \in DOMAIN notification_cf :
                     notification_cf[k].token # lastOp'.token
                         => /\ k \in DOMAIN notification_cf'
                            /\ notification_cf'[k] = notification_cf[k]
              /\ \A a \in DOMAIN address_cf : \A i \in DOMAIN address_cf[a] :
                     address_cf[a][i] # lastOp'.token
                         => /\ a \in DOMAIN address_cf'
                            /\ Contains(address_cf'[a], address_cf[a][i])
       /\ lastOp'.op = "notifications"
           => /\ lastOp'.returned = {n \in Values(notification_cf) : n.token = lastOp'.token}
              /\ store' = store]_vars

\* T1 unsubscribed while it had notifications, an address of its own and one
\* shared; T2 still has a notification and an address.
C16_Witness ==
    /\ lastOp.op = "unsubscribe"
    /\ lastOp.token = T1
    /\ lastOp.existing
    /\ \E k \in DOMAIN notification_cf : notification_cf[k].token = T2
    /\ \E a \in DOMAIN address_cf : Contains(address_cf[a], T2)

\* C17: add_addresses(list) for token t puts t in the record of every valid
\* address of the list, wherever invalid entries stand in it; it changes nothing
\* else in the store (so nothing for an invalid entry) and reports no error.
C17_AddAddressesSkipsInvalid ==
    [][lastOp'.op = "add_addresses"
           => LET valid == {a \in Range(lastOp'.addresses) : is_address(a)}
              IN  /\ \A a \in valid :
                         a \in DOMAIN address_cf' /\ Contains(address_cf'[a], lastOp'.token)
                  /\ DOMAIN address_cf' = DOMAIN address_cf \cup valid
                  /\ \A a \in DOMAIN address_cf \ valid : address_cf'[a] = address_cf[a]
                  /\ \A a \in DOMAIN address_cf \cap valid :
                         \A i \in DOMAIN address_cf[a] :
                             Contains(address_cf'[a], address_cf[a][i])
                  /\ lastOp'.result = "Ok"
                  /\ <<last_processed_block, token_cf, notification_cf, mempool_cf>>'
                         = <<last_processed_block, token_cf, notification_cf, mempool_cf>>]_vars

\* A list with an invalid entry between two valid ones was added for T1, to an
\* address T2 watched already and to one nobody watched.
C17_Witness ==
    /\ lastOp.op = "add_addresses"
    /\ lastOp.token = T1
    /\ lastOp.addresses = <<"A", "test", "B">>
    /\ "A" \in DOMAIN address_cf /\ address_cf["A"] = <<T2, T1>>
    /\ "B" \in DOMAIN address_cf /\ address_cf["B"] = <<T1>>

Occurrences(seq, x) == Cardinality({i \in DOMAIN seq : seq[i] = x})

TokensOf(ad, address) == IF address \in DOMAIN ad THEN ad[address] ELSE <<>>

\* C18: create_address(token, addr) is a set-add: afterwards the list of addr
\* holds token once, the other tokens are as before, a record that did not
\* exist does now, and a call that finds token there changes nothing; no list
\* ever holds a token twice. delete_address(token, addr) takes token out of the
\* list and deletes the record exactly when the list becomes empty.
C18_AddressTokensAreASet ==
    /\ [](\A a \in DOMAIN address_cf : \A t \in Range(address_cf[a]) :
              Occurrences(address_cf[a], t) = 1)
    /\ [][/\ lastOp'.op = "add_addresses"
              => \A a \in {x \in Range(lastOp'.addresses) : is_address(x)} :
                     /\ a \in DOMAIN address_cf'
                     /\ Occurrences(address_cf'[a], lastOp'.token) = 1
                     /\ Retain(address_cf'[a], lastOp'.token)
                            = Retain(TokensOf(address_cf, a), lastOp'.token)
                     /\ Contains(TokensOf(address_cf, a), lastOp'.token)
                            => address_cf'[a] = address_cf[a]
          /\ lastOp'.op = "delete_address"
              => LET a == lastOp'.address
                     rest == Retain(TokensOf(address_cf, a), lastOp'.token)
                 IN  /\ TokensOf(address_cf', a) = rest
                     /\ a \in DOMAIN address_cf' <=> rest # <<>>
                     /\ \A b \in DOMAIN address_cf \ {a} :
                            b \in DOMAIN address_cf' /\ address_cf'[b] = address_cf[b]]_vars

\* delete_address took T1 out of A, which it alone watched, so that the record
\* is gone, while B holds T1 beside T2.
C18_Witness ==
    /\ lastOp.op = "delete_address"
    /\ lastOp.token = T1
    /\ lastOp.address = "A"
    /\ lastOp.existing
    /\ "A" \notin DOMAIN address_cf
    /\ "B" \in DOMAIN address_cf /\ address_cf["B"] = <<T2, T1>>

\* C19: create_token(t) fails with InvalidValue when t is not well formed and
\* with AlreadyExist when t is well formed and present, the store staying as it
\* was in both cases; otherwise it adds t to the token partition and changes no
\* other partition.
C19_CreateTokenOutcomes ==
    [][lastOp'.op = "subscribe"
           => LET t == lastOp'.token
              IN  /\ ~WellFormed(t) => lastOp'.db = "InvalidValue" /\ store' = store
                  /\ WellFormed(t) /\ t \in token_cf
                         => lastOp'.db = "AlreadyExist" /\ store' = store
                  /\ WellFormed(t) /\ t \notin token_cf
                         => /\ lastOp'.db = "Ok"
                            /\ token_cf' = token_cf \cup {t}
                            /\ <<last_processed_block, address_cf, notification_cf,
                                  mempool_cf>>'
                                   = <<last_processed_block, address_cf, notification_cf,
                                       mempool_cf>>]_vars

\* create_token has refused a token of 64 hex characters that is stored.
C19_Witness ==
    /\ lastOp.op = "subscribe"
    /\ lastOp.db = "AlreadyExist"
    /\ CharLen(lastOp.token) = 64
    /\ token_cf = {lastOp.token}

----------------------------------------------------------------------------
(* Failures of the store *)

\* C20: a Core API mutation during which a write to the store failed does not
\* report success.
C20_StoreFailuresSurface == lastOp.db = "WriteFailed" => lastOp.result # "Ok"

\* The same for subscribe alone.
C20_SubscribeSurfaces ==
    lastOp.op = "subscribe" /\ lastOp.db = "WriteFailed" => lastOp.result = "Db"

----------------------------------------------------------------------------
(* The frame of the chain cursor *)

\* A step of the block processor thread (no other action changes bp).
BlockProcessorStep == bp' # bp

\* C21: only a step of the block processor changes last_processed_block, and
\* once the cursor is stored no step removes it, whatever the Core API, the
\* mempool processor and the cleaners do.
C21_CursorFrame ==
    [][/\ last_processed_block' # last_processed_block => BlockProcessorStep
       /\ last_processed_block # NONE => last_processed_block' # NONE
    ]_vars

\* The cursor is stored and has advanced, a cleaner has removed the pending
\* notification the mempool processor wrote, and the Core API has since
\* removed the token.
C21_Witness ==
    /\ last_processed_block > Tip0 - OFFSET
    /\ mempool_cf = <<>>
    /\ written # {}
    /\ notification_cf = <<>>
    /\ now >= NOTIFICATION_TTL
    /\ lastOp.op = "unsubscribe"

----------------------------------------------------------------------------
(* The first run of the block processor *)

CursorCreated == last_processed_block = NONE /\ last_processed_block' # NONE

\* C26: the iteration that finds no cursor stores T = tip - OFFSET, T being
\* the height it read less the offset, and goes back to the head of its loop
\* with no block fetched and nothing written; every block classified
\* afterwards is above that T, and the first of them is T + 1.
C26_FirstRun ==
    /\ [][CursorCreated =>
             /\ last_processed_block' = lastTip - OFFSET
             /\ bp'.initial = last_processed_block'
             /\ bp'.pc = "count"
             /\ bp'.blocks = <<>>
             /\ written' = written /\ notification_cf' = notification_cf
         ]_vars
    /\ [](/\ \A i \in DOMAIN bp.blocks : bp.blocks[i] > bp.initial
          /\ bp.blocks # <<>> => bp.initial # NONE /\ bp.blocks[1] = bp.initial + 1)

C26_Witness ==
    /\ bp.initial > Tip0 - OFFSET
    /\ Len(bp.blocks) >= 2
    /\ written # {}

----------------------------------------------------------------------------
(* The passes of the mempool processor *)

\* The step classifies txid as unconfirmed and then marks it seen.
ClassifiedThenMarked(txid) ==
    \E order \in ResidualOrders(TxTable[txid]) :
        LET r == QueueAll([nf |-> notification_cf, log |-> written], address_cf, txid,
                          process_transaction(TxTable[txid], order), FALSE, now)
        IN  /\ notification_cf' = r.nf
            /\ written' = r.log
            /\ mempool_cf' = Put(mempool_cf, txid, now)

NothingStored ==
    /\ notification_cf' = notification_cf
    /\ written' = written
    /\ mempool_cf' = mempool_cf

\* C30: the list a pass works through is the node's mempool less the txids in
\* the seen cache, so a cached txid is never classified and a txid that is
\* still in the mempool and not marked is taken up again by the next pass; a
\* step of a pass either classifies its txid with confirmed = false and marks
\* it seen, or (the fetch failed) stores nothing and leaves it unmarked; and a
\* txid enters the seen cache only in a step that classified it.
C30_MempoolPass ==
    [][/\ mp.pc = "poll" /\ mp' # mp =>
              Range(mp'.new) = {x \in Txids : txState[x] = InMempool
                                               /\ x \notin DOMAIN mempool_cf}
       /\ mp.pc = "txs" =>
              /\ Head(mp.new) \notin DOMAIN mempool_cf
              /\ mp' # mp => ClassifiedThenMarked(Head(mp.new)) \/ NothingStored
       /\ \A x \in DOMAIN mempool_cf' \ DOMAIN mempool_cf :
              mp.pc = "txs" /\ x = Head(mp.new) /\ ClassifiedThenMarked(x)
    ]_vars

C30_Witness ==
    /\ \E x \in DOMAIN mempool_cf : txState[x] = InMempool
    /\ \E w \in written : ~w.confirmed
    /\ mp.pc = "poll"

----------------------------------------------------------------------------
(* The classifier's treatment of the addresses a transaction spends from *)

\* The addresses of the inputs that carry a prevout with an address.
SpentFrom(tx) ==
    {tx.vin[i].address : i \in {j \in DOMAIN tx.vin : /\ tx.vin[j].has_prevout
                                                     /\ tx.vin[j].address # NoAddress}}

\* What the chain says the inputs from address a carried, in satoshi.
InputTotal(tx, a) ==
    SumSat(SelectSeq(tx.vin, LAMBDA input : input.has_prevout /\ input.address = a))

OutputsTo(tx, a) == {j \in DOMAIN tx.vout : tx.vout[j].address = a}

FirstOutputTo(tx, a) == CHOOSE j \in OutputsTo(tx, a) : \A k \in OutputsTo(tx, a) : j <= k

\* The notifications of the last classification that are for address a.
About(a) == SelectSeq(lastOp.emitted, LAMBDA e : e.address = a)

\* The amount is the expected one or a satoshi below it.
Within1(amount, expected) == amount \in {expected - 1, expected}

\* C27 as stated: for a watched address a with input total I whose first output
\* carries o, the classification emits ("out", I - o) if o < I and ("in", o - I)
\* otherwise, once, and no residual "out" for a follows.
C27_SelfSpend ==
    \A x \in DOMAIN SpendTable : \A a \in SpentFrom(SpendTable[x]) :
        Classified(x) /\ Watched({a}) /\ OutputsTo(SpendTable[x], a) # {}
            => LET I == InputTotal(SpendTable[x], a)
                   o == SpendTable[x].vout[FirstOutputTo(SpendTable[x], a)].sat
               IN  /\ Len(About(a)) = Cardinality(OutputsTo(SpendTable[x], a))
                   /\ About(a)[1] = IF o < I THEN Triple(a, "out", I - o)
                                     ELSE Triple(a, "in", o - I)

\* The direction and the count of the rule above, with the amount to within a
\* satoshi.
C27_Direction ==
    \A x \in DOMAIN SpendTable : \A a \in SpentFrom(SpendTable[x]) :
        Classified(x) /\ Watched({a}) /\ OutputsTo(SpendTable[x], a) # {}
            => LET I == InputTotal(SpendTable[x], a)
                   o == SpendTable[x].vout[FirstOutputTo(SpendTable[x], a)].sat
               IN  /\ Len(About(a)) = Cardinality(OutputsTo(SpendTable[x], a))
                   /\ About(a)[1].txtype = IF o < I THEN "out" ELSE "in"
                   /\ Within1(About(a)[1].amount, IF o < I THEN I - o ELSE o - I)

\* C28 as stated: a watched address that appears among the inputs and in no
\* output gets exactly one notification, an "out" whose amount is the sum of
\* the values of its inputs; inputs without prevout or address add nothing.
C28_Residuals ==
    \A x \in DOMAIN SpendTable : \A a \in SpentFrom(SpendTable[x]) :
        Classified(x) /\ Watched({a}) /\ OutputsTo(SpendTable[x], a) = {}
            => About(a) = <<Triple(a, "out", InputTotal(SpendTable[x], a))>>

\* The count and direction of the residual notifications, with the amount to
\* within a satoshi.
C28_Aggregation ==
    \A x \in DOMAIN SpendTable : \A a \in SpentFrom(SpendTable[x]) :
        Classified(x) /\ Watched({a}) /\ OutputsTo(SpendTable[x], a) = {}
            => /\ Len(About(a)) = 1
               /\ About(a)[1].txtype = "out"
               /\ Within1(About(a)[1].amount, InputTotal(SpendTable[x], a))

----------------------------------------------------------------------------
(* The notifications of one classification *)

\* The fields of a notification that the caller of create_notification gives.
Call(n) ==
    [token |-> n.token, address |-> n.address, txid |-> n.txid, txtype |-> n.txtype,
     amount |-> n.amount, confirmed |-> n.confirmed]

\* One create_notification call for each triple whose address has a record
\* and each token of that record.
FanOut(ad, txid, triples, confirmed) ==
    UNION {{[token |-> t, address |-> triples[i].address, txid |-> txid,
             txtype |-> triples[i].txtype, amount |-> amount_of(triples[i].value),
             confirmed |-> confirmed] : t \in Range(TokensOf(ad, triples[i].address))} :
              i \in DOMAIN triples}

\* C29: a classification stores, for each of its triples and each token in the
\* record of the triple's address as it is then, the notification of that
\* token; it stores nothing else, so nothing for an address without a record
\* and nothing for a token that is not in the record, and removes nothing.
C29_FanOut ==
    [][lastOp'.op = "process_transaction" =>
           \E order \in ResidualOrders(ClassifyTable[lastOp'.key[1]]) :
               LET calls == FanOut(address_cf, lastOp'.key[1],
                                   process_transaction(ClassifyTable[lastOp'.key[1]], order),
                                   lastOp'.key[2])
               IN  /\ \A call \in calls : \E k \in DOMAIN notification_cf' :
                          /\ Call(notification_cf'[k]) = call
                          /\ notification_cf'[k].timestamp = now
                   /\ \A k \in DOMAIN notification_cf' :
                          \/ /\ k \in DOMAIN notification_cf
                             /\ notification_cf'[k] = notification_cf[k]
                          \/ Call(notification_cf'[k]) \in calls
                   /\ DOMAIN notification_cf \subseteq DOMAIN notification_cf'
                   /\ {Call(w) : w \in written' \ written} \subseteq calls
    ]_vars

\* s4 was classified while A was watched by T1 and T2 and B by T2 alone.
C29_Witness ==
    /\ Classified("s4")
    /\ "A" \in DOMAIN address_cf /\ Range(address_cf["A"]) = {T1, T2}
    /\ "B" \in DOMAIN address_cf /\ address_cf["B"] = <<T2>>
    /\ Cardinality({k \in DOMAIN notification_cf : notification_cf[k].address = "A"}) = 2
    /\ \A k \in DOMAIN notification_cf :
           notification_cf[k].address = "B" => notification_cf[k].token = T2
    /\ \E k \in DOMAIN notification_cf : notification_cf[k].address = "B"

----------------------------------------------------------------------------
(* Derivation of addresses from extended public keys *)

\* Every arrangement of the entries of a sequence.
Permuted(seq) == {[i \in DOMAIN seq |-> seq[order[i]]] : order \in Orders(DOMAIN seq)}

Ascending(pubkeys) ==
    \A i, j \in DOMAIN pubkeys : i < j => ~PublicKeyLess(pubkeys[j], pubkeys[i])

MultisigCall == lastOp.op = "Multisig::derive"

\* The child keys of the last call's key list, in the order of the list.
ChildrenOfCall ==
    LET xpub_keys == Multisig_new(lastOp.key[1], lastOp.key[2], lastOp.key[3]).value.xpub_keys
    IN  [i \in DOMAIN xpub_keys |->
            derive_pub(xpub_keys[i], ChangeOf(lastOp.key[5]), lastOp.key[4])]

\* C22: the address Multisig::derive returns is that of the script whose keys
\* are the children in ascending order, and every arrangement of the same key
\* list, with the same script type, m, index and change flag, gives that
\* address.
C22_Bip67 ==
    MultisigCall /\ lastOp.db = "Some"
        => /\ \E pubkeys \in Permuted(ChildrenOfCall) :
                  /\ Ascending(pubkeys)
                  /\ lastOp.address = MultisigAddress(lastOp.key[1], lastOp.key[2], pubkeys)
           /\ \A public_keys \in Permuted(lastOp.key[3]) :
                  LET multisig == Multisig_new(lastOp.key[1], lastOp.key[2], public_keys)
                  IN  /\ multisig.tag = "Ok"
                      /\ Multisig_derive(multisig.value, lastOp.key[4], lastOp.key[5])
                             = Some(lastOp.address)

\* Three keys were given in an order that is not the ascending order of their
\* children at the path asked for.
C22_Witness ==
    /\ MultisigCall /\ lastOp.db = "Some"
    /\ Len(lastOp.key[3]) = 3
    /\ ~Ascending(ChildrenOfCall)
    /\ lastOp.key[3] # <<"xpubK3", "xpubK2", "xpubK1">>

\* The key string decodes as an extended public key.
Decodable(key) ==
    KeyStrings[key].check /\ KeyStrings[key].payload = 78 /\ KeyStrings[key].point

MixedPrefixes(public_keys) ==
    \E i, j \in DOMAIN public_keys :
        KeyStrings[public_keys[i]].prefix # KeyStrings[public_keys[j]].prefix

\* The cases in which Multisig::new is to reject.
Rejected(script_type, required_signatures, public_keys) ==
    \/ script_type \notin {"p2wsh", "p2shwsh", "p2sh"}
    \/ public_keys = <<>>
    \/ required_signatures > Len(public_keys)
    \/ MixedPrefixes(public_keys)
    \/ \E i \in DOMAIN public_keys : ~Decodable(public_keys[i])

MultisigErrors ==
    {"InvalidScriptType", "InvalidSignatureNumber", "InvalidXPubKeysNumber", "PublicKeysEmpty",
     "PublicKeysWithDifferentScriptTypes"}

\* C23 as stated: Multisig::new never aborts, returns an error in each of the
\* listed cases and Ok in every other.
C23_NewRejects ==
    MultisigCall
        => /\ lastOp.result # "Panic"
           /\ Rejected(lastOp.key[1], lastOp.key[2], lastOp.key[3])
                  <=> lastOp.result \in MultisigErrors

\* The same for key lists whose strings are extended public keys or fail the
\* base58check test, and have four bytes at least.
C23_CheckedKeys ==
    (/\ MultisigCall
     /\ \A i \in DOMAIN lastOp.key[3] :
            /\ KeyStrings[lastOp.key[3][i]].bytes >= 4
            /\ Decodable(lastOp.key[3][i]) \/ ~KeyStrings[lastOp.key[3][i]].check)
        => /\ lastOp.result # "Panic"
           /\ Rejected(lastOp.key[1], lastOp.key[2], lastOp.key[3])
                  <=> lastOp.result \in MultisigErrors

SinglesigCall ==
    lastOp.op \in {"add_addresses_from_singlesig", "delete_addresses_from_singlesig"}

\* The u32 values from from_index to to_index.
RECURSIVE Indexes(_, _)
Indexes(from_index, to_index) ==
    IF U32Less(to_index, from_index) THEN <<>>
    ELSE IF from_index = to_index THEN <<from_index>>
    ELSE <<from_index>> \o Indexes(U32Succ(from_index), to_index)

AddressKind(prefix) ==
    IF prefix = "xpub" THEN "p2pkh" ELSE IF prefix = "ypub" THEN "p2shwpkh" ELSE "p2wpkh"

\* The addresses from_singlesig is to return for the last call.
ExpectedOfCall ==
    LET key == KeyStrings[lastOp.key[1]]
        indexes == Indexes(lastOp.key[2], lastOp.key[3])
    IN  [k \in DOMAIN indexes |->
            SinglesigAddress(AddressKind(key.prefix),
                             derive_pub(key.id, ChangeOf(lastOp.key[4]), indexes[k]))]

ValidSinglesigCall ==
    /\ SinglesigCall
    /\ Decodable(lastOp.key[1])
    /\ KeyStrings[lastOp.key[1]].prefix \in {"xpub", "ypub", "zpub"}
    /\ ~U32Less(lastOp.key[3], lastOp.key[2])

\* C24 as stated: with a valid xpub, ypub or zpub key and from <= to,
\* from_singlesig returns to - from + 1 addresses, the k-th that of child
\* change/(from + k), of the type of the prefix.
C24_Singlesig ==
    ValidSinglesigCall => lastOp.result = "Ok" /\ lastOp.addresses = ExpectedOfCall

\* The same for ranges that end below 2^31.
C24_NormalIndexes ==
    ValidSinglesigCall /\ from_normal_idx(lastOp.key[3])
        => lastOp.result = "Ok" /\ lastOp.addresses = ExpectedOfCall

\* C25 as stated: a call of add/delete_addresses_from_singlesig with a string
\* that is not an extended public key of a supported prefix returns
\* InvalidArgs and leaves the store as it was.
C25_UndecodableKey ==
    [][(/\ lastOp'.op \in {"add_addresses_from_singlesig", "delete_addresses_from_singlesig"}
        /\ \/ ~Decodable(lastOp'.key[1])
           \/ KeyStrings[lastOp'.key[1]].prefix \notin {"xpub", "ypub", "zpub"})
           => lastOp'.result = "InvalidArgs" /\ store' = store]_vars

\* The same for the strings that fail the base58check test.
C25_BadChecksum ==
    [][(/\ lastOp'.op \in {"add_addresses_from_singlesig", "delete_addresses_from_singlesig"}
        /\ ~KeyStrings[lastOp'.key[1]].check)
           => lastOp'.result = "InvalidArgs" /\ store' = store]_vars

----------------------------------------------------------------------------
(* The end of a pass of the block processor *)

\* The transactions of the block at height h.
BlockTxs(h) == {x \in Txids : txState[x] = h}

CursorAdvanced == last_processed_block # NONE /\ last_processed_block' = last_processed_block + 1

\* The addresses of the outputs of tx that have a record.
WatchedOutputs(tx) ==
    {tx.vout[i].address : i \in DOMAIN tx.vout} \cap DOMAIN address_cf

\* C31: the step that moves the cursor from L to L + 1 is taken at the end of
\* a pass over block L + 1 that has been through every transaction of the
\* block, it writes nothing but the cursor, and the pass ends with it; each
\* step of the pass on a transaction stores its notifications with confirmed =
\* true (one for every token of every watched output address) and leaves the
\* transaction out of the seen cache, the cursor staying where it was.
C31_CursorAfterBlock ==
    [][/\ CursorAdvanced =>
              /\ bp.pc = "txs" /\ bp.last = last_processed_block
              /\ Range(bp.done) = BlockTxs(last_processed_block')
              /\ bp.queue = <<>>
              /\ bp'.pc = "count"
              /\ UNCHANGED <<token_cf, address_cf, notification_cf, mempool_cf, written>>
       /\ bp.pc = "txs" /\ bp'.done # bp.done /\ bp'.pc = "txs" =>
              LET txid == Head(bp.queue)
              IN  /\ bp'.done = Append(bp.done, txid)
                  /\ txid \in BlockTxs(next_block_to_process(bp.last))
                  /\ txid \notin DOMAIN mempool_cf'
                  /\ last_processed_block' = last_processed_block
                  /\ \A w \in written' \ written : w.confirmed /\ w.txid = txid
                  /\ \A a \in WatchedOutputs(TxTable[txid]) :
                         \A i \in DOMAIN address_cf[a] :
                             \E k \in DOMAIN notification_cf' :
                                 /\ notification_cf'[k].token = address_cf[a][i]
                                 /\ notification_cf'[k].txid = txid
                                 /\ notification_cf'[k].address = a
                                 /\ notification_cf'[k].confirmed
    ]_vars

\* The cursor stands on a block that held a transaction paying a watched
\* address, and the mempool processor had marked the transaction seen before.
C31_Witness ==
    /\ last_processed_block # NONE
    /\ BlockTxs(last_processed_block) # {}
    /\ bp.pc = "count"
    /\ \E w \in written : w.confirmed
    /\ \E w \in written : ~w.confirmed
    /\ mempool_cf = <<>>

----------------------------------------------------------------------------
(* The preflight of the "bitcoin" thread *)

ProcessorsStart == bitcoin.pc # "Processor::run" /\ bitcoin'.pc = "Processor::run"

\* Every call of the iteration under way returned Ok, and what the calls
\* returned meets every prerequisite.
AllHeld ==
    /\ bitcoin.blockchain_info.tag = "Ok"
    /\ bitcoin.network_info.tag = "Ok"
    /\ bitcoin.peers_info.tag = "Ok"
    /\ bitcoin.index_info.tag = "Ok"
    /\ bitcoin.blockchain_info.chain = "main"
    /\ ~bitcoin.blockchain_info.pruned
    /\ bitcoin.network_info.version >= 220000
    /\ bitcoin.network_info.network_active
    /\ bitcoin.peers_info.len > 0
    /\ bitcoin.blockchain_info.headers = bitcoin.blockchain_info.blocks
    /\ bitcoin.index_info.synced

\* C32: Processor::run is reached only by the step that ends an iteration of
\* the preflight in which all four calls returned and chain = main, pruned =
\* false, version >= 220000, network active, a peer, headers = blocks and
\* txindex.synced were all observed; and neither processor takes a step
\* before that.
C32_PreflightGate ==
    [][/\ ProcessorsStart => bitcoin.pc = "checks" /\ AllHeld
       /\ bp' # bp \/ mp' # mp => bitcoin.pc = "Processor::run"
    ]_vars

\* The preflight has passed and both processors have been at work since.
C32_Witness ==
    /\ bitcoin.pc = "Processor::run"
    /\ AllHeld
    /\ last_processed_block # NONE
    /\ mempool_cf # <<>>

\* The iteration under way has observed a fatal condition: one of the four
\* the checks panic on in what its calls have returned so far, or, at
\* get_index_info, a node without txindex.
FatalCondition ==
    \/ /\ bitcoin.blockchain_info.tag = "Ok"
       /\ bitcoin.blockchain_info.chain # "main" \/ bitcoin.blockchain_info.pruned
    \/ /\ bitcoin.network_info.tag = "Ok"
       /\ bitcoin.network_info.version < 220000 \/ ~bitcoin.network_info.network_active
    \/ bitcoin.pc = "get_index_info" /\ node.txindex = "disabled"

Terminates == bitcoin.pc # "panicked" /\ bitcoin'.pc = "panicked"

Retries == bitcoin' = SleepAndRetry

\* C33: the thread terminates only in a step that observed a fatal condition;
\* any other step of the preflight that does not go on to the next call or to
\* Processor::run goes back to the head of the loop.
C33_ErrorPolicy ==
    [][/\ Terminates => FatalCondition
       /\ bitcoin' # bitcoin /\ bitcoin.pc = "checks" /\ ~FatalCondition /\ ~AllHeld => Retries
    ]_vars

\* What holds of the code: besides the fatal conditions, an error of
\* get_index_info other than BadResult terminates the thread as well; an
\* error of the three other calls, BadResult of get_index_info and the
\* waiting states go back to the head of the loop.
C33_IndexInfoErrorsFatal ==
    [][/\ Terminates =>
              \/ FatalCondition
              \/ /\ bitcoin.pc = "get_index_info"
                 /\ bitcoin'.index_info.tag = "Err"
                 /\ bitcoin'.index_info.kind # "BadResult"
       /\ bitcoin' # bitcoin /\ bitcoin.pc \in {"get_blockchain_info", "get_network_info",
                                              "get_peer_info"} =>
              \/ Retries
              \/ bitcoin'.pc \in {"get_network_info", "get_peer_info", "get_index_info"}
       /\ bitcoin' # bitcoin /\ bitcoin.pc = "checks" /\ ~FatalCondition /\ ~AllHeld => Retries
    ]_vars

----------------------------------------------------------------------------
(* Concurrent requests on one address record *)

Returned(r) == requests[r].pc = "returned"

\* C34: when two add_addresses requests for the same valid address and
\* different tokens have both returned, the record of the address holds both
\* tokens (no request of this specification removes a token).
C34_NoLostUpdate ==
    \A r1, r2 \in DOMAIN requests :
        /\ requests[r1].op = "add_addresses" /\ requests[r2].op = "add_addresses"
        /\ Returned(r1) /\ Returned(r2)
        /\ requests[r1].address = requests[r2].address
        /\ is_address(requests[r1].address)
        /\ requests[r1].token # requests[r2].token
        => /\ requests[r1].address \in DOMAIN address_cf
           /\ Contains(address_cf[requests[r1].address], requests[r1].token)
           /\ Contains(address_cf[requests[r1].address], requests[r2].token)

\* What holds of the code: a token is in a record only by a request for it
\* that has returned, and the address of a returned request has a record.
C34_LastWriterWins ==
    /\ \A a \in DOMAIN address_cf :
           \A i \in DOMAIN address_cf[a] :
               \E r \in DOMAIN requests :
                   /\ requests[r].op = "add_addresses"
                   /\ requests[r].address = a
                   /\ requests[r].token = address_cf[a][i]
                   /\ requests[r].pc = "returned"
    /\ \A r \in DOMAIN requests :
           /\ requests[r].op = "add_addresses"
           /\ Returned(r)
           /\ is_address(requests[r].address)
           => requests[r].address \in DOMAIN address_cf

----------------------------------------------------------------------------
(* Events of one transaction that share direction and amount *)

\* The notification of token t for the emitted event e of transaction txid.
NotificationOf(t, txid, e) ==
    {k \in DOMAIN notification_cf :
        /\ notification_cf[k].token = t
        /\ notification_cf[k].txid = txid
        /\ notification_cf[k].address = e.address
        /\ notification_cf[k].txtype = e.txtype
        /\ notification_cf[k].amount = e.amount}

\* C35: after a transaction has been classified, every event the classifier
\* emitted for a watched address has its notification for every token of the
\* address; in particular two events of the same direction and amount for two
\* addresses A and B of one token leave two notifications, one with address A
\* and one with address B.
C35_EventsNotMerged ==
    lastOp.op = "process_transaction" =>
        \A i \in DOMAIN lastOp.emitted :
            \A j \in DOMAIN address_cf[lastOp.emitted[i].address] :
                NotificationOf(address_cf[lastOp.emitted[i].address][j], lastOp.key[1],
                               lastOp.emitted[i]) # {}

\* The last of the events emitted for token t that share e's direction and
\* amount.
LastLike(t, e) ==
    LET like == {i \in DOMAIN lastOp.emitted :
                    /\ lastOp.emitted[i].txtype = e.txtype
                    /\ lastOp.emitted[i].amount = e.amount
                    /\ Contains(address_cf[lastOp.emitted[i].address], t)}
    IN  lastOp.emitted[CHOOSE i \in like : \A j \in like : j <= i]

\* What holds of the code: of the events of one transaction that share token,
\* direction and amount, the notification of the last one emitted is stored,
\* under the one key they share.
C35_LastEventWins ==
    lastOp.op = "process_transaction" =>
        \A i \in DOMAIN lastOp.emitted :
            \A j \in DOMAIN address_cf[lastOp.emitted[i].address] :
                LET t == address_cf[lastOp.emitted[i].address][j]
                    e == lastOp.emitted[i]
                IN  /\ NotificationOf(t, lastOp.key[1], LastLike(t, e)) # {}
                    /\ Cardinality({k \in DOMAIN notification_cf :
                                       /\ notification_cf[k].token = t
                                       /\ notification_cf[k].txid = lastOp.key[1]
                                       /\ notification_cf[k].txtype = e.txtype
                                       /\ notification_cf[k].amount = e.amount}) = 1

----------------------------------------------------------------------------
(* Pending writes over confirmed notifications *)

\* C36: no step replaces a stored notification that has confirmed = true by
\* one with confirmed = false under the same id.
C36_ConfirmationKept ==
    [][\A k \in DOMAIN notification_cf \cap DOMAIN notification_cf' :
           notification_cf[k].confirmed => notification_cf'[k].confirmed
    ]_vars

\* What holds of the code: a confirmed notification is replaced by a pending
\* one only by the mempool processor, classifying a txid of a list it took
\* from the node's mempool before the transaction was mined, after the block
\* processor has been through the transaction's block.
C36_OnlyStaleMempoolList ==
    [][\A k \in DOMAIN notification_cf \cap DOMAIN notification_cf' :
           notification_cf[k].confirmed /\ ~notification_cf'[k].confirmed =>
               /\ mp.pc = "txs"
               /\ mp' # mp
               /\ notification_cf[k].txid = Head(mp.new)
               /\ txState[Head(mp.new)] > InMempool
               /\ Contains(bp.blocks, txState[Head(mp.new)])
    ]_vars

----------------------------------------------------------------------------
(* C37: what a cleaner's delete removes *)

\* The notifications and the mempool-seen entries a step of a cleaner thread
\* takes out of the store.
NcRemoved == IF ncl' # ncl THEN DOMAIN notification_cf \ DOMAIN notification_cf' ELSE {}

McRemoved == IF mcl' # mcl THEN DOMAIN mempool_cf \ DOMAIN mempool_cf' ELSE {}

\* C37: a cleaner's sweep never deletes an entry that is unexpired at the
\* moment of the delete: a notification or a mempool-seen entry rewritten with
\* a fresh timestamp between the snapshot and the delete survives the sweep.
C37_FreshEntrySurvives ==
    [][/\ \A k \in NcRemoved : expired(notification_cf[k].timestamp, NOTIFICATION_TTL, now)
       /\ \A x \in McRemoved : expired(mempool_cf[x], MEMPOOL_TTL, now) ]_vars

\* What holds of the code: the entry a cleaner deletes is the one whose key is
\* in the snapshot, and it is the snapshot's timestamp that has expired, not
\* necessarily the stored one; a mempool-seen entry is never rewritten while it
\* is stored, so that its stored timestamp is the snapshot's.
C37_SnapshotEntryExpired ==
    [][/\ \A k \in NcRemoved :
              /\ ncl'.examined[1].id = k
              /\ expired(ncl'.examined[1].timestamp, NOTIFICATION_TTL, now)
       /\ \A x \in McRemoved :
              /\ mcl'.examined[1] = <<x, mempool_cf[x]>>
              /\ expired(mempool_cf[x], MEMPOOL_TTL, now) ]_vars

----------------------------------------------------------------------------
(* C38: references to tokens, between operations *)

\* No store operation is in progress.
Quiescent == \A r \in DOMAIN requests : requests[r].pc \in {"returned", "unauthorized"}

\* The tokens of the address records, and the owners of the notifications.
ReferencedTokens ==
    UNION {Range(address_cf[a]) : a \in DOMAIN address_cf}
        \cup {notification_cf[k].token : k \in DOMAIN notification_cf}

\* C38: in every quiescent state every token that appears in an address
\* record or owns a notification is in the token partition, also when an
\* unsubscribe interleaves with add_addresses or with an emission.
C38_ReferentialIntegrity == Quiescent => ReferencedTokens \subseteq token_cf

\* What holds of the code: a reference to a token outside the token partition
\* is left only of a token whose unsubscribe request went through.
C38_DanglingOnlyAfterUnsubscribe ==
    \A t \in ReferencedTokens \ token_cf :
        \E r \in DOMAIN requests :
            /\ requests[r].op = "unsubscribe"
            /\ requests[r].token = t
            /\ requests[r].pc \in {"delete", "returned"}

----------------------------------------------------------------------------
(* C39: the amounts of the classifier's notifications *)

\* C39: every notification the classifier writes has amount > 0 (every input
\* and output of ClassifyTable has a positive value); none is written for an
\* address whose output equals the sum of its inputs.
C39_AmountsPositive == \A k \in DOMAIN notification_cf : notification_cf[k].amount > 0

\* What holds of the code: a notification of amount 0 is an "in" for the
\* address whose output equals its inputs, and no "out" has amount 0.
C39_ZeroOnlyForEqualValues ==
    \A k \in DOMAIN notification_cf :
        notification_cf[k].amount = 0 =>
            /\ notification_cf[k].txtype = "in"
            /\ notification_cf[k].txid = "same"
            /\ notification_cf[k].address = "A"

----------------------------------------------------------------------------
(* C40: the block processor's progress *)

\* A step in which a call to the node or a write of the cursor fails.
BpFailure == BpGetBlockCountErr \/ BpFetchBlockErr \/ BpSetCursorFails

\* The heights get_block_count can report.
Heights == Tip0 .. Tip0 + MaxBlocks

ReachedBelow(H) == last_processed_block # NONE /\ last_processed_block >= H - OFFSET

\* C40, the order: every height process_block classifies is classified once,
\* the heights in increasing order.
C40_ClassifiedOnceInOrder ==
    \A i, j \in DOMAIN bp.blocks : i < j => bp.blocks[i] < bp.blocks[j]

\* What holds of the code, progress: if from some point on no call to the node
\* and no write of the cursor fails, then for every height H that
\* get_block_count reported the cursor reaches H - OFFSET at least.
C40_CursorReachesTarget ==
    <>[][~BpFailure]_vars =>
        \A H \in Heights : (lastTip = H) ~> ReachedBelow(H)

\* What holds of the code, the order: the heights are classified in
\* non-decreasing order without a gap, from the one after the cursor's first
\* value, a height again only when the write of the cursor after it failed.
C40_ClassifiedAtLeastOnceInOrder ==
    /\ \A i \in DOMAIN bp.blocks :
           bp.blocks[i] = (IF i = 1 THEN bp.initial ELSE bp.blocks[i - 1]) + 1
               \/ (i > 1 /\ bp.blocks[i] = bp.blocks[i - 1])
    /\ WriteFailures(bp.blocks) <= MaxWriteFailures
    /\ last_processed_block # NONE /\ bp.initial # NONE =>
           \A h \in bp.initial + 1 .. last_processed_block : Contains(bp.blocks, h)

====
